---- MODULE Spec2Model ----
(***************************************************************************)
(* A model of jscrape: the Runner (lib/runners.js), the Scraper protocol   *)
(* (lib/scrapers.js) and the puppeteer proxy layer (lib/proxies.js).       *)
(*                                                                         *)
(* Spec      the orchestration pipeline: Runner.run, Runner.runScraper,    *)
(*           Runner.getScraperItems, Scraper.scrape, Scraper.recoverable.  *)
(* SpecNav   one BrowserHandler session: throttle, newPage, tryOpenPage    *)
(*           and the navigation operations of PageHandler, with a clock.   *)
(* SpecProxy the proxy layer: BaseHandler.get and the operations of the    *)
(*           four handlers that return handles.                            *)
(***************************************************************************)
EXTENDS Integers, Sequences, FiniteSets, TLC

\* ------------------------------------------------------------------ bounds
MaxUnits == 2        \* scrapers handed to Runner.run
MaxTargets == 2      \* targets enumerated by one scraper
MaxItems == 2        \* items one process step yields
HardTimeout == 1     \* the hard timeout H, in clock ticks, when it is enabled
NumBlocklists == 2   \* entries of blocklists.json
MaxThrottle == 2     \* largest throttle interval, in clock ticks
MaxCalls == 3        \* navigation-class calls issued on one session
MaxElapsed == 4      \* clock ticks that pass during one session
MaxPages == 2        \* raw pages the engine makes
MaxFrames == 2       \* raw frames of a page
MaxElements == 2     \* raw element handles of a document
MaxTimeoutOption == 1 \* largest navigation timeout given as an option
MaxSinkCalls == 4    \* calls made on one LocalFileProcessor
MaxTextLen == 4      \* characters of a string handed to cleanWhitespace
MaxApplications == 2 \* successive applications of cleanWhitespace
MaxTargetList == 2   \* targets in a list handed to a Scraper

VARIABLES
  \* --- configuration of the run (fixed by Init)
  hook,          \* "raise": Runner.handleError as written; "continue": an override that returns
  hardTimeout,   \* this._hardTimeout (0 disables the watchdog)
  ads,           \* this._ads
  registered,    \* the keys of this.processors
  nUnits,        \* length of scraperList
  nTargets,      \* number of targets each scraper enumerates
  \* --- Runner.run / runScraper / getScraperItems / scrape
  pc,            \* position of the (single) async control flow
  unit,          \* index of the scraper being run
  target,        \* index of the target being scraped
  fault,         \* the error being thrown, "none" when there is none
  adclient,      \* this._adclient: "null", "built"
  listIdx,       \* number of block lists fetched and parsed
  sinkState,     \* per sink: "new", "open", "closed"
  browser,       \* per unit: "none", "open", "closed" (browser.close invoked)
  page,          \* the page of the current target: "none", "null", "open", "closed"
  closeInvoked,  \* whether scrape has called page.close() for the current target
  stepEnd,       \* how the process step of the current target ended
  settled,       \* per unit: "no", "resolved", "rejected" (runScraper's promise)
  yielded,       \* items the current process step has yielded
  received,      \* items of the current process step that reached runScraper
  record,        \* the record runScraper is handling, with the gap at its production
  timers,        \* armed watchdog timers: records [unit, left]
  gap,           \* ticks since the last record production (or stream start)
  fatal,         \* 0, or the unit whose watchdog timer threw (process torn down)
  exitStatus,    \* the status the command-line process ended with; <<>> while it runs
  logged,        \* whether recoverable passed the current target's fault to console.error
  scenario,      \* history of the current unit: no sink is registered by kind and, so
                 \* far, every page opened, every step gave exactly one plain value
                 \* and no sink, close or engine call failed
  dispatches,    \* calls of the default sink's process() in the unit (while scenario)
  closes,        \* resolved page.close() calls in the unit (while scenario)
  \* --- one BrowserHandler session and its pages (SpecNav)
  throttleMs,    \* this.__pageOptions__.throttle (0 when not configured)
  clearCookies,  \* this.__clearCookies__
  now,           \* new Date().getTime()
  lastPageLoad,  \* this.__lastPageLoad
  npc,           \* position inside the navigation-class call in progress
  op,            \* the call in progress / made last
  optThrottle,   \* options.throttle of a tryOpenPage call (0 when not given)
  inner,         \* TRUE inside the page.goto that tryOpenPage makes
  sleepUntil,    \* when the timer of utils.sleep runs out
  callStart,     \* when the call in progress / made last was issued
  prevCallStart, \* when the call before it was issued (-1: there is none)
  navAt,         \* when the engine navigation of the call started (-1: not yet)
  calls,         \* number of calls issued
  created,       \* the raw page created by the tryOpenPage in progress / made last
  curPage,       \* whether the session has an open page to navigate
  result,        \* how the call made last ended
  failed,        \* the step of the call that failed ("none": no step did)
  navigationTimeout, \* options.navigationTimeout of the session (0 when not given)
  callTimeout,   \* options.timeout of the PageHandler operation navigating (Absent: not given)
  steps,         \* what the PageHandler operation in progress / made last has done, in order
  usedOptions,   \* the options handed to the engine navigation in progress
  closeCalls,    \* invocations of the raw close() of the page this call made
  usedAfterClose, \* an operation was issued on that page after a close() of it
  \* --- the proxy layer, seen from the code that holds the views (SpecProxy)
  held,          \* the view the caller holds and calls operations on
  ret,           \* the handles the operation called last returned
  retOp,         \* the operation called last
  lastRead,      \* what the get trap did on the last member read
  nPages,        \* number of raw pages the engine has made
  images,        \* this.__loadImages__ of the session (options.images)
  sessionAdclient, \* this.__adclient__ of the session (options.adclient): "null" or "built"
  intercepting,  \* the raw pages that have the request handler of newPage installed
  request,       \* the network request the engine raised last, and what was called on it
  attrResult,    \* the attr(...) call made last on the held element view, and how it ended
  \* --- one LocalFileProcessor (SpecSink)
  stream,        \* this.stream: "null" or "open"
  sinkCalls,     \* the calls made on the processor so far, each with how it ended
  \* --- the wait helpers of one PageHandler (SpecWait)
  waitTimeout,   \* options.waitTimeout of the session (Absent when not given)
  waitCall,      \* the wait helper called last, its options and what the engine was handed
  \* --- the library's helpers (SpecUtil)
  rawText,       \* the caller's value (an argument, an innerText): Null or a string
  cleaned,       \* the successive applications of cleanWhitespace, from rawText on
  made,          \* the error object constructed last
  \* --- the targets of one Scraper (SpecTargets)
  given,         \* the targets argument of the constructor
  classTargets,  \* the class's static targets (JsNull when it declares none)
  thisTargets,   \* this.targets
  enumerated,    \* what getTargets() has yielded so far
  enumerating,   \* whether the getTargets() generator is still running
  urls           \* urlFromTarget of each target yielded, as far as asked

cfgVars == <<hook, hardTimeout, ads, registered, nUnits, nTargets>>
runVars == <<pc, unit, target, fault, adclient, listIdx, sinkState, browser, page,
             closeInvoked, stepEnd, settled, yielded, received, record, timers, gap,
             fatal, exitStatus, logged, scenario, dispatches, closes>>
navVars == <<throttleMs, clearCookies, now, lastPageLoad, npc, op, optThrottle, inner,
             sleepUntil, callStart, prevCallStart, navAt, calls, created, curPage,
             result, failed, navigationTimeout, callTimeout, steps, usedOptions,
             closeCalls, usedAfterClose>>

proxyVars == <<held, ret, retOp, lastRead, nPages, images, sessionAdclient,
               intercepting, request, attrResult>>

sinkVars == <<stream, sinkCalls>>

waitVars == <<waitTimeout, waitCall>>

utilVars == <<rawText, cleaned, made>>

targetVars == <<given, classTargets, thisTargets, enumerated, enumerating, urls>>

vars == <<cfgVars, runVars, navVars, proxyVars, sinkVars, waitVars, utilVars, targetVars>>

\* ------------------------------------------------------------ value sets
Units == 1..MaxUnits
Targets == 1..MaxTargets

\* What a process step can yield: a bare object, a base Record, an instance
\* of a class derived from Record.
ItemKinds == {"plain", "Record", "Listing"}

\* The sinks: the default processor, and one per name that can be a key of
\* this.processors, in key order.
SinkOrder == <<"Record", "Listing">>
SinkNames == {SinkOrder[i] : i \in 1..Len(SinkOrder)}
Sinks == {"default"} \cup SinkNames

NoRecord == [status |-> "none", item |-> "plain", isRecord |-> FALSE, name |-> "Record",
             validateCalls |-> 0, validateRaised |-> FALSE, sinks |-> <<>>, gap |-> 0,
             sinkRaised |-> FALSE, reports |-> 0, after |-> FALSE]

Min(a, b) == IF a < b THEN a ELSE b

\* ------------------------------------------------- Runner: pure helpers
\* utils.wrappedError(errors.BaseError, error): an error that is already a
\* BaseError is returned as it is, any other one becomes a BaseError.
BaseErrors == {"BaseError", "RecordError", "ProcessorError"}
wrappedError_AsIs(error) == error
wrappedError(error) == IF error \in BaseErrors THEN error ELSE "BaseError"

\* Runner.handleError: the class as written throws its argument; a derived
\* runner may return instead.  The result says how the call ends.
handleError_Throw(error) == "throw"
handleError(error) == IF hook = "raise" THEN "throw" ELSE "return"

\* Runner.handleUnwrappedError: wrap, then hand to handleError.
handleUnwrappedError(error) == handleError(wrappedError(error))

\* runScraper's "wrap bare values": an item that is no Record becomes a base
\* Record carrying its fields; record.constructor.name is the class name.
\* reports counts the calls of handleUnwrappedError made for the record;
\* after tells that an earlier record of the same step was reported.
ClassName(item) == IF item = "plain" THEN "Record" ELSE item
WrapItem(item) ==
  [status |-> "handling", item |-> item, isRecord |-> TRUE, name |-> ClassName(item),
   validateCalls |-> 0, validateRaised |-> FALSE, sinks |-> <<>>, gap |-> gap,
   sinkRaised |-> FALSE, reports |-> 0, after |-> (record.after \/ record.reports > 0)]

\* Record.validate() of the base class has an empty body; only a derived
\* class can raise.
CanRaiseOnValidate(r) == r.name # "Record"

getProcessorFor_DefaultOnly(r) == "default"
getProcessorFor_ByName(r) == r.name

\* Runner.getProcessorFor
getProcessorFor(r) == IF r.name \in registered THEN r.name ELSE "default"

\* makeHardTimeout / clearTimeout(timeout) inside getScraperItems, both
\* under "if (this._hardTimeout)".  The local `timeout` of the generator of
\* unit u holds the timer armed last for u.
makeHardTimeout(ts, u) ==
  IF hardTimeout > 0 THEN ts \cup {[unit |-> u, left |-> hardTimeout]} ELSE ts
clearTimeout(ts, u) ==
  IF hardTimeout > 0 THEN {t \in ts : t.unit # u} ELSE ts

\* A timer whose delay has run out: its callback is the next thing the event
\* loop runs.
Overdue == \E t \in timers : t.left < 0
Running_Always == TRUE
Running == fatal = 0 /\ ~Overdue /\ exitStatus = <<>>

\* ------------------------------------------------ Scraper: pure helpers
recoverableCatch_SwallowAll(error) == "swallow"

\* The catch block of Scraper.recoverable: `${error}`.includes("Session closed.")
recoverableCatch(error) == IF error = "SessionClosed" THEN "rethrow" ELSE "swallow"

\* History kept for the current unit: the step just taken keeps the unit
\* within the scenario (ok) and adds d calls of the default sink's process()
\* and c page closes; once the unit has left the scenario nothing is counted.
Track(ok, d, c) ==
  IF scenario /\ ok
    THEN scenario' = TRUE /\ dispatches' = dispatches + d /\ closes' = closes + c
    ELSE scenario' = FALSE /\ dispatches' = 0 /\ closes' = 0

\* ------------------------------------------------------------------ Init
InitPipe ==
  /\ hook \in {"raise", "continue"}
  /\ hardTimeout \in {0, HardTimeout}
  /\ ads \in BOOLEAN
  /\ registered \in SUBSET SinkNames
  /\ nUnits \in 1..MaxUnits
  /\ nTargets \in 1..MaxTargets
  /\ pc = "run"
  /\ unit = 0
  /\ target = 0
  /\ fault = "none"
  /\ adclient = "null"
  /\ listIdx = 0
  /\ sinkState = [s \in Sinks |-> "new"]
  /\ browser = [u \in Units |-> "none"]
  /\ page = "none"
  /\ closeInvoked = FALSE
  /\ stepEnd = "none"
  /\ settled = [u \in Units |-> "no"]
  /\ yielded = 0
  /\ received = 0
  /\ record = NoRecord
  /\ timers = {}
  /\ gap = 0
  /\ fatal = 0
  /\ exitStatus = <<>>
  /\ logged = FALSE
  /\ scenario = FALSE
  /\ dispatches = 0
  /\ closes = 0

\* ------------------------------------------------------------ Runner.run
\* run(), up to its first await: "if (!this._ads)" decides whether the block
\* lists are loaded before the processors are opened.
FirstPhase_NoFilter == "openProcessors"
FirstPhase == IF ads THEN "openProcessors" ELSE "buildAdClient"
RunStart ==
  /\ pc = "run" /\ Running
  /\ pc' = FirstPhase
  /\ UNCHANGED <<cfgVars, unit, target, fault, adclient, listIdx, sinkState, browser,
                 page, closeInvoked, stepEnd, settled, yielded, received, record,
                 timers, gap, fatal, exitStatus, logged, scenario, dispatches, closes,
                 proxyVars, sinkVars, waitVars, utilVars, targetVars, navVars>>

\* buildAdClient: "const list = await rp(blocklist.url)" resolves; the list is
\* parsed; after the last one the client is returned and run() stores it in
\* this._adclient and in this._browserOptions.adclient.  installedAdClient
\* is what this._adclient holds once `parsed` lists have been parsed: the
\* client is local to buildAdClient until all lists are in.
installedAdClient_Partial(parsed) == IF parsed > 0 THEN "built" ELSE "null"
installedAdClient(parsed) == IF parsed = NumBlocklists THEN "built" ELSE "null"
FetchBlocklist ==
  /\ pc = "buildAdClient" /\ Running
  /\ listIdx < NumBlocklists
  /\ listIdx' = listIdx + 1
  /\ adclient' = installedAdClient(listIdx + 1)
  /\ pc' = IF listIdx + 1 = NumBlocklists THEN "openProcessors" ELSE pc
  /\ UNCHANGED <<cfgVars, unit, target, fault, sinkState, browser, page, closeInvoked,
                 stepEnd, settled, yielded, received, record, timers, gap, fatal,
                 exitStatus, logged, scenario, dispatches, closes, proxyVars, sinkVars,
                 waitVars, utilVars, targetVars, navVars>>

\* buildAdClient: "await rp(blocklist.url)" rejects; nothing catches it, so
\* run() rejects.
FetchBlocklistFails ==
  /\ pc = "buildAdClient" /\ Running
  /\ listIdx < NumBlocklists
  /\ fault' = "FetchError"
  /\ pc' = "rejected"
  /\ UNCHANGED <<cfgVars, unit, target, adclient, listIdx, sinkState, browser, page,
                 closeInvoked, stepEnd, settled, yielded, received, record, timers,
                 gap, fatal, exitStatus, logged, scenario, dispatches, closes,
                 proxyVars, sinkVars, waitVars, utilVars, targetVars, navVars>>

\* The sink run() opens next: the default processor, then this.processors in
\* key order; "none" when all are open.
RECURSIVE FirstNew(_, _)
FirstNew(st, i) ==
  IF i > Len(SinkOrder) THEN "none"
  ELSE IF SinkOrder[i] \in registered /\ st[SinkOrder[i]] = "new" THEN SinkOrder[i]
  ELSE FirstNew(st, i + 1)
NextToOpen(st) == IF st["default"] = "new" THEN "default" ELSE FirstNew(st, 1)

\* run(): "await this.defaultProcessor.open()" and the for..in loop of opens;
\* after the last open the scraper loop starts.
OpenProcessor ==
  /\ pc = "openProcessors" /\ Running
  /\ LET s == NextToOpen(sinkState)
         st == [sinkState EXCEPT ![s] = "open"]
     IN /\ s # "none"
        /\ sinkState' = st
        /\ pc' = IF NextToOpen(st) = "none" THEN "scrapers" ELSE pc
  /\ UNCHANGED <<cfgVars, unit, target, fault, adclient, listIdx, browser, page,
                 closeInvoked, stepEnd, settled, yielded, received, record, timers,
                 gap, fatal, exitStatus, logged, scenario, dispatches, closes,
                 proxyVars, sinkVars, waitVars, utilVars, targetVars, navVars>>

\* run(): the next iteration of "for (const scraper of scraperList)" calls
\* runScraper, which calls launchBrowser.
RunScraper ==
  /\ pc = "scrapers" /\ Running
  /\ unit < nUnits
  /\ unit' = unit + 1
  /\ pc' = "launchBrowser"
  /\ Track(FALSE, 0, 0)
  /\ UNCHANGED <<cfgVars, target, fault, adclient, listIdx, sinkState, browser, page,
                 closeInvoked, stepEnd, settled, yielded, received, record, timers,
                 gap, fatal, exitStatus, logged, proxyVars, sinkVars, waitVars,
                 utilVars, targetVars, navVars>>

\* run(): the scraper loop is over.
ScrapersDone ==
  /\ pc = "scrapers" /\ Running
  /\ unit = nUnits
  /\ pc' = "closeProcessors"
  /\ UNCHANGED <<cfgVars, unit, target, fault, adclient, listIdx, sinkState, browser,
                 page, closeInvoked, stepEnd, settled, yielded, received, record,
                 timers, gap, fatal, exitStatus, logged, scenario, dispatches, closes,
                 proxyVars, sinkVars, waitVars, utilVars, targetVars, navVars>>

\* The sink run() closes next: this.processors in key order, then the default
\* processor; "none" when all are closed.
RECURSIVE FirstOpen(_, _)
FirstOpen(st, i) ==
  IF i > Len(SinkOrder) THEN "none"
  ELSE IF SinkOrder[i] \in registered /\ st[SinkOrder[i]] = "open" THEN SinkOrder[i]
  ELSE FirstOpen(st, i + 1)
NextToClose(st) ==
  IF FirstOpen(st, 1) # "none" THEN FirstOpen(st, 1)
  ELSE IF st["default"] = "open" THEN "default" ELSE "none"

\* run(): the for..in loop of closes and "await this.defaultProcessor.close()";
\* after the last close run() resolves.
CloseProcessor ==
  /\ pc = "closeProcessors" /\ Running
  /\ LET s == NextToClose(sinkState)
         st == [sinkState EXCEPT ![s] = "closed"]
     IN /\ s # "none"
        /\ sinkState' = st
        /\ pc' = IF NextToClose(st) = "none" THEN "resolved" ELSE pc
  /\ UNCHANGED <<cfgVars, unit, target, fault, adclient, listIdx, browser, page,
                 closeInvoked, stepEnd, settled, yielded, received, record, timers,
                 gap, fatal, exitStatus, logged, scenario, dispatches, closes,
                 proxyVars, sinkVars, waitVars, utilVars, targetVars, navVars>>

\* ------------------------------------- Runner.runScraper / getScraperItems
\* runScraper: "await this.launchBrowser(browserOptions)" resolves with the
\* proxied browser.
LaunchBrowser ==
  /\ pc = "launchBrowser" /\ Running
  /\ browser' = [browser EXCEPT ![unit] = "open"]
  /\ pc' = "getScraperItems"
  /\ UNCHANGED <<cfgVars, unit, target, fault, adclient, listIdx, sinkState, page,
                 closeInvoked, stepEnd, settled, yielded, received, record, timers,
                 gap, fatal, exitStatus, logged, scenario, dispatches, closes,
                 proxyVars, sinkVars, waitVars, utilVars, targetVars, navVars>>

\* runScraper: puppeteer.launch rejects; runScraper and run() reject.
LaunchBrowserFails ==
  /\ pc = "launchBrowser" /\ Running
  /\ fault' = "LaunchError"
  /\ settled' = [settled EXCEPT ![unit] = "rejected"]
  /\ pc' = "rejected"
  /\ UNCHANGED <<cfgVars, unit, target, adclient, listIdx, sinkState, browser, page,
                 closeInvoked, stepEnd, yielded, received, record, timers, gap, fatal,
                 exitStatus, logged, scenario, dispatches, closes, proxyVars, sinkVars,
                 waitVars, utilVars, targetVars, navVars>>

\* getScraperItems, first next(): the first timer is armed and the loop over
\* scraper.scrape(browser) starts.
GetScraperItemsStart ==
  /\ pc = "getScraperItems" /\ Running
  /\ timers' = makeHardTimeout(timers, unit)
  /\ gap' = 0
  /\ target' = 0
  /\ page' = "none" /\ closeInvoked' = FALSE /\ stepEnd' = "none" /\ logged' = FALSE
  /\ yielded' = 0 /\ received' = 0 /\ record' = NoRecord
  /\ pc' = "getTargets"
  /\ scenario' = (registered = {}) /\ dispatches' = 0 /\ closes' = 0
  /\ UNCHANGED <<cfgVars, unit, fault, adclient, listIdx, sinkState, browser, settled,
                 fatal, exitStatus, proxyVars, sinkVars, waitVars, utilVars,
                 targetVars, navVars>>

\* scrape: getTargets() yields the next target; its URL goes to
\* browser.tryOpenPage.
NextTarget ==
  /\ pc = "getTargets" /\ Running
  /\ target < nTargets
  /\ target' = target + 1
  /\ page' = "none" /\ closeInvoked' = FALSE /\ stepEnd' = "none" /\ logged' = FALSE
  /\ yielded' = 0 /\ received' = 0 /\ record' = NoRecord
  /\ pc' = "tryOpenPage"
  /\ UNCHANGED <<cfgVars, unit, fault, adclient, listIdx, sinkState, browser, settled,
                 timers, gap, fatal, exitStatus, scenario, dispatches, closes,
                 proxyVars, sinkVars, waitVars, utilVars, targetVars, navVars>>

\* scrape: getTargets() is exhausted, scrape returns; getScraperItems leaves
\* its loop, clears the timer and returns; runScraper leaves its loop and
\* calls browser.close().
ScrapeExhausted ==
  /\ pc = "getTargets" /\ Running
  /\ target = nTargets
  /\ timers' = clearTimeout(timers, unit)
  /\ pc' = "browserClose"
  /\ UNCHANGED <<cfgVars, unit, target, fault, adclient, listIdx, sinkState, browser,
                 page, closeInvoked, stepEnd, settled, yielded, received, record, gap,
                 fatal, exitStatus, logged, scenario, dispatches, closes, proxyVars,
                 sinkVars, waitVars, utilVars, targetVars, navVars>>

ifPage_Always(p) == "step"

\* scrape: "if (page) { ... }": with a page the process step is started
\* under recoverable; with null the loop goes on to the next target.
ifPage(p) == IF p = "open" THEN "step" ELSE "getTargets"

\* scrape: "await browser.tryOpenPage(url)" resolves with a page; the process
\* step is started under recoverable.
TryOpenPage ==
  /\ pc = "tryOpenPage" /\ Running
  /\ page' = "open"
  /\ stepEnd' = "running"
  /\ pc' = ifPage("open")
  /\ UNCHANGED <<cfgVars, unit, target, fault, adclient, listIdx, sinkState, browser,
                 closeInvoked, settled, yielded, received, record, timers, gap, fatal,
                 exitStatus, logged, scenario, dispatches, closes, proxyVars, sinkVars,
                 waitVars, utilVars, targetVars, navVars>>

\* scrape: tryOpenPage resolves with null; "if (page)" skips the target.
TryOpenPageNull ==
  /\ pc = "tryOpenPage" /\ Running
  /\ page' = "null"
  /\ pc' = ifPage("null")
  /\ Track(FALSE, 0, 0)
  /\ UNCHANGED <<cfgVars, unit, target, fault, adclient, listIdx, sinkState, browser,
                 closeInvoked, stepEnd, settled, yielded, received, record, timers,
                 gap, fatal, exitStatus, logged, proxyVars, sinkVars, waitVars,
                 utilVars, targetVars, navVars>>

\* The process step yields an item.  yield* hands it through recoverable and
\* scrape to getScraperItems, which clears the timer and yields it to
\* runScraper, which wraps a bare value into a Record.
StepYield ==
  /\ pc = "step" /\ Running
  /\ yielded < MaxItems
  /\ \E item \in ItemKinds :
       /\ record' = WrapItem(item)
       /\ Track(yielded = 0 /\ item = "plain", 0, 0)
  /\ yielded' = yielded + 1
  /\ received' = received + 1
  /\ timers' = clearTimeout(timers, unit)
  /\ gap' = 0
  /\ pc' = "validate"
  /\ UNCHANGED <<cfgVars, unit, target, fault, adclient, listIdx, sinkState, browser,
                 page, closeInvoked, stepEnd, settled, fatal, exitStatus, logged,
                 proxyVars, sinkVars, waitVars, utilVars, targetVars, navVars>>

afterRecoverable_NoClose == "getTargets"

\* scrape: the statement after "yield* this.recoverable(...)" inside
\* "if (page)": "await page.close()".
afterRecoverable == "pageClose"

\* The process step returns; recoverable returns; scrape goes on to
\* "await page.close()".
StepReturn ==
  /\ pc = "step" /\ Running
  /\ stepEnd' = "returned"
  /\ record' = NoRecord /\ yielded' = 0 /\ received' = 0
  /\ pc' = afterRecoverable
  /\ Track(yielded = 1, 0, 0)
  /\ UNCHANGED <<cfgVars, unit, target, fault, adclient, listIdx, sinkState, browser,
                 page, closeInvoked, settled, timers, gap, fatal, exitStatus, logged,
                 proxyVars, sinkVars, waitVars, utilVars, targetVars, navVars>>

\* The process step throws, into the catch block of recoverable.
StepThrow ==
  /\ pc = "step" /\ Running
  /\ \E e \in {"StepError", "SessionClosed"} :
       /\ fault' = e
       /\ Track(yielded = 1 /\ recoverableCatch(e) = "swallow", 0, 0)
  /\ record' = NoRecord
  /\ pc' = "recoverable"
  /\ UNCHANGED <<cfgVars, unit, target, adclient, listIdx, sinkState, browser, page,
                 closeInvoked, stepEnd, settled, yielded, received, timers, gap, fatal,
                 exitStatus, logged, proxyVars, sinkVars, waitVars, utilVars,
                 targetVars, navVars>>

\* recoverable: the error is a session-closed error and is thrown again; it
\* leaves scrape (no page.close()) and lands in the catch of getScraperItems.
RecoverableRethrow ==
  /\ pc = "recoverable" /\ Running
  /\ recoverableCatch(fault) = "rethrow"
  /\ stepEnd' = "rethrown"
  /\ pc' = "scrapeThrow"
  /\ UNCHANGED <<cfgVars, unit, target, fault, adclient, listIdx, sinkState, browser,
                 page, closeInvoked, settled, yielded, received, record, timers, gap,
                 fatal, exitStatus, logged, scenario, dispatches, closes, proxyVars,
                 sinkVars, waitVars, utilVars, targetVars, navVars>>

\* recoverable: any other error; _sniffCurrentUrl gives a URL or null (or
\* throws, which gives null), the error is logged "if (url)", and recoverable
\* returns; scrape goes on to "await page.close()".
RecoverableSwallow ==
  /\ pc = "recoverable" /\ Running
  /\ recoverableCatch(fault) = "swallow"
  /\ \E url \in BOOLEAN :
       logged' = url
  /\ fault' = "none"
  /\ stepEnd' = "swallowed"
  /\ pc' = afterRecoverable
  /\ UNCHANGED <<cfgVars, unit, target, adclient, listIdx, sinkState, browser, page,
                 closeInvoked, settled, yielded, received, record, timers, gap, fatal,
                 exitStatus, scenario, dispatches, closes, proxyVars, sinkVars,
                 waitVars, utilVars, targetVars, navVars>>

\* scrape: "await page.close()" resolves; on to the next target.
PageClose ==
  /\ pc = "pageClose" /\ Running
  /\ closeInvoked' = TRUE
  /\ page' = "closed"
  /\ pc' = "getTargets"
  /\ Track(TRUE, 0, 1)
  /\ UNCHANGED <<cfgVars, unit, target, fault, adclient, listIdx, sinkState, browser,
                 stepEnd, settled, yielded, received, record, timers, gap, fatal,
                 exitStatus, logged, proxyVars, sinkVars, waitVars, utilVars,
                 targetVars, navVars>>

\* scrape: "await page.close()" rejects (the engine refuses); the error
\* leaves scrape and lands in the catch of getScraperItems.
PageCloseFails ==
  /\ pc = "pageClose" /\ Running
  /\ closeInvoked' = TRUE
  /\ fault' = "CloseError"
  /\ pc' = "scrapeThrow"
  /\ Track(FALSE, 0, 0)
  /\ UNCHANGED <<cfgVars, unit, target, adclient, listIdx, sinkState, browser, page,
                 stepEnd, settled, yielded, received, record, timers, gap, fatal,
                 exitStatus, logged, proxyVars, sinkVars, waitVars, utilVars,
                 targetVars, navVars>>

\* getScraperItems: "catch (error) { this.handleUnwrappedError(error) }" and
\* handleError throws: getScraperItems, runScraper and run() reject.  No
\* clearTimeout on this path, no browser.close().
ScrapeThrowRaise ==
  /\ pc = "scrapeThrow" /\ Running
  /\ handleUnwrappedError(fault) = "throw"
  /\ fault' = wrappedError(fault)
  /\ settled' = [settled EXCEPT ![unit] = "rejected"]
  /\ pc' = "rejected"
  /\ UNCHANGED <<cfgVars, unit, target, adclient, listIdx, sinkState, browser, page,
                 closeInvoked, stepEnd, yielded, received, record, timers, gap, fatal,
                 exitStatus, logged, scenario, dispatches, closes, proxyVars, sinkVars,
                 waitVars, utilVars, targetVars, navVars>>

\* getScraperItems: the catch block and handleError returns: the generator
\* ends normally (no clearTimeout on this path); runScraper leaves its loop
\* and calls browser.close().
ScrapeThrowContinue ==
  /\ pc = "scrapeThrow" /\ Running
  /\ handleUnwrappedError(fault) = "return"
  /\ fault' = "none"
  /\ pc' = "browserClose"
  /\ UNCHANGED <<cfgVars, unit, target, adclient, listIdx, sinkState, browser, page,
                 closeInvoked, stepEnd, settled, yielded, received, record, timers,
                 gap, fatal, exitStatus, logged, scenario, dispatches, closes,
                 proxyVars, sinkVars, waitVars, utilVars, targetVars, navVars>>

\* runScraper: "record.validate()" returns; getProcessorFor picks the sink.
Validate ==
  /\ pc = "validate" /\ Running
  /\ record' = [record EXCEPT !.validateCalls = @ + 1]
  /\ pc' = "sink"
  /\ UNCHANGED <<cfgVars, unit, target, fault, adclient, listIdx, sinkState, browser,
                 page, closeInvoked, stepEnd, settled, yielded, received, timers, gap,
                 fatal, exitStatus, logged, scenario, dispatches, closes, proxyVars,
                 sinkVars, waitVars, utilVars, targetVars, navVars>>

\* runScraper: "record.validate()" throws; handleUnwrappedError decides.  When
\* it throws, the loop body of runScraper is left: the record stream is
\* abandoned (return() runs down getScraperItems, scrape, recoverable and the
\* process step, none of which has a finally block) and runScraper and run()
\* reject.  When it returns, runScraper goes on to the sink.
ValidateRaises ==
  /\ pc = "validate" /\ Running
  /\ CanRaiseOnValidate(record)
  /\ IF handleUnwrappedError("RecordError") = "throw"
       THEN /\ record' = [record EXCEPT !.validateCalls = @ + 1,
                                        !.validateRaised = TRUE,
                                        !.reports = @ + 1,
                                        !.status = "aborted"]
            /\ fault' = wrappedError("RecordError")
            /\ stepEnd' = "abandoned"
            /\ settled' = [settled EXCEPT ![unit] = "rejected"]
            /\ pc' = "rejected"
       ELSE /\ record' = [record EXCEPT !.validateCalls = @ + 1,
                                        !.validateRaised = TRUE,
                                        !.reports = @ + 1]
            /\ pc' = "sink"
            /\ UNCHANGED <<fault, stepEnd, settled>>
  /\ Track(FALSE, 0, 0)
  /\ UNCHANGED <<cfgVars, unit, target, adclient, listIdx, sinkState, browser, page,
                 closeInvoked, yielded, received, timers, gap, fatal, exitStatus,
                 logged, proxyVars, sinkVars, waitVars, utilVars, targetVars, navVars>>

\* runScraper: "await processor.process(record)" resolves; the loop asks
\* getScraperItems for the next item: the generator resumes after its yield,
\* arms a new timer and asks scrape, which resumes the process step.
SinkProcess ==
  /\ pc = "sink" /\ Running
  /\ record' = [record EXCEPT !.sinks = Append(@, getProcessorFor(record)),
                              !.status = "done"]
  /\ timers' = makeHardTimeout(timers, unit)
  /\ pc' = "step"
  /\ Track(TRUE, IF getProcessorFor(record) = "default" THEN 1 ELSE 0, 0)
  /\ UNCHANGED <<cfgVars, unit, target, fault, adclient, listIdx, sinkState, browser,
                 page, closeInvoked, stepEnd, settled, yielded, received, gap, fatal,
                 exitStatus, logged, proxyVars, sinkVars, waitVars, utilVars,
                 targetVars, navVars>>

\* runScraper: "await processor.process(record)" rejects; handleUnwrappedError
\* decides, as for validate.
SinkProcessRaises ==
  /\ pc = "sink" /\ Running
  /\ IF handleUnwrappedError("SinkError") = "throw"
       THEN /\ record' = [record EXCEPT !.sinks = Append(@, getProcessorFor(record)),
                                        !.sinkRaised = TRUE,
                                        !.reports = @ + 1,
                                        !.status = "aborted"]
            /\ fault' = wrappedError("SinkError")
            /\ stepEnd' = "abandoned"
            /\ settled' = [settled EXCEPT ![unit] = "rejected"]
            /\ pc' = "rejected"
            /\ UNCHANGED timers
       ELSE /\ record' = [record EXCEPT !.sinks = Append(@, getProcessorFor(record)),
                                        !.sinkRaised = TRUE,
                                        !.reports = @ + 1,
                                        !.status = "done"]
            /\ timers' = makeHardTimeout(timers, unit)
            /\ pc' = "step"
            /\ UNCHANGED <<fault, stepEnd, settled>>
  /\ Track(FALSE, 0, 0)
  /\ UNCHANGED <<cfgVars, unit, target, adclient, listIdx, sinkState, browser, page,
                 closeInvoked, yielded, received, gap, fatal, exitStatus, logged,
                 proxyVars, sinkVars, waitVars, utilVars, targetVars, navVars>>

\* runScraper: "await browser.close()" and "return true".
BrowserClose ==
  /\ pc = "browserClose" /\ Running
  /\ browser' = [browser EXCEPT ![unit] = "closed"]
  /\ settled' = [settled EXCEPT ![unit] = "resolved"]
  /\ pc' = "scrapers"
  /\ UNCHANGED <<cfgVars, unit, target, fault, adclient, listIdx, sinkState, page,
                 closeInvoked, stepEnd, yielded, received, record, timers, gap, fatal,
                 exitStatus, logged, scenario, dispatches, closes, proxyVars, sinkVars,
                 waitVars, utilVars, targetVars, navVars>>

\* ------------------------------------------------------ time and timers
\* The awaits during which the clock advances: the page load of tryOpenPage,
\* the process step, and the sink's process().
TimedPcs == {"tryOpenPage", "step", "sink"}

\* One clock tick passes while the control flow is suspended in an await.
\* Every armed timer comes one tick closer; a timer whose delay has run out
\* fires before more time passes.
Tick ==
  /\ pc \in TimedPcs /\ Running
  /\ timers # {} \/ (hardTimeout > 0 /\ gap <= hardTimeout)
  /\ timers' = {[t EXCEPT !.left = @ - 1] : t \in timers}
  /\ gap' = IF hardTimeout > 0 THEN Min(gap + 1, hardTimeout + 1) ELSE gap
  /\ UNCHANGED <<cfgVars, pc, unit, target, fault, adclient, listIdx, sinkState,
                 browser, page, closeInvoked, stepEnd, settled, yielded, received,
                 record, fatal, exitStatus, logged, scenario, dispatches, closes,
                 proxyVars, sinkVars, waitVars, utilVars, targetVars, navVars>>

\* The status node ends with on an exception no handler caught.
UncaughtExceptionStatus == 1

\* The callback of makeHardTimeout runs: it throws a BaseError outside any
\* promise, which tears down the node process.
WatchdogFire ==
  /\ fatal = 0 /\ exitStatus = <<>>
  /\ \E t \in timers :
       /\ t.left < 0
       /\ fatal' = t.unit
       /\ timers' = timers \ {t}
  /\ exitStatus' = <<UncaughtExceptionStatus>>
  /\ Track(FALSE, 0, 0)
  /\ UNCHANGED <<cfgVars, pc, unit, target, fault, adclient, listIdx, sinkState,
                 browser, page, closeInvoked, stepEnd, settled, yielded, received,
                 record, gap, logged, proxyVars, sinkVars, waitVars, utilVars,
                 targetVars, navVars>>

\* ------------------------------------------------------------------ Spec
Next ==
  \/ RunStart \/ FetchBlocklist \/ FetchBlocklistFails \/ OpenProcessor
  \/ RunScraper \/ ScrapersDone \/ CloseProcessor
  \/ LaunchBrowser \/ LaunchBrowserFails \/ GetScraperItemsStart
  \/ NextTarget \/ ScrapeExhausted \/ TryOpenPage \/ TryOpenPageNull
  \/ StepYield \/ StepReturn \/ StepThrow
  \/ RecoverableRethrow \/ RecoverableSwallow
  \/ PageClose \/ PageCloseFails \/ ScrapeThrowRaise \/ ScrapeThrowContinue
  \/ Validate \/ ValidateRaises \/ SinkProcess \/ SinkProcessRaises
  \/ BrowserClose \/ Tick \/ WatchdogFire

\* ------------------------------------------------- the command-line script
\* promise.then(value => { ...; process.exit(0) }): runner.run(scraper) has
\* resolved.
\* Whatever the value is, the callback logs and ends the process with 0;
\* run() resolves with undefined.
thenStatus_Failure(value) == 1
thenStatus(value) == 0
RunThen ==
  /\ pc = "resolved" /\ Running
  /\ exitStatus' = <<thenStatus("undefined")>>
  /\ UNCHANGED <<cfgVars, pc, unit, target, fault, adclient, listIdx, sinkState,
                 browser, page, closeInvoked, stepEnd, settled, yielded, received,
                 record, timers, gap, fatal, logged, scenario, dispatches, closes,
                 proxyVars, sinkVars, waitVars, utilVars, targetVars, navVars>>

\* .catch(error => { ...; process.exit(1) }): runner.run(scraper) has rejected.
RunCatch ==
  /\ pc = "rejected" /\ Running
  /\ exitStatus' = <<1>>
  /\ UNCHANGED <<cfgVars, pc, unit, target, fault, adclient, listIdx, sinkState,
                 browser, page, closeInvoked, stepEnd, settled, yielded, received,
                 record, timers, gap, fatal, logged, scenario, dispatches, closes,
                 proxyVars, sinkVars, waitVars, utilVars, targetVars, navVars>>

\* process.on("unhandledRejection", ...): a promise nobody awaits rejects
\* while the run is under way (the "error" handler newPage installs on a
\* page is such a promise: "await rawPage.close()" inside an async callback);
\* the handler logs and calls process.exit(1).  The rejection is taken while
\* a process step is at work on a page and has not yielded yet.
UnhandledRejection ==
  /\ pc = "step" /\ page = "open" /\ Running
  /\ yielded = 0
  /\ exitStatus' = <<1>>
  /\ UNCHANGED <<cfgVars, pc, unit, target, fault, adclient, listIdx, sinkState,
                 browser, page, closeInvoked, stepEnd, settled, yielded, received,
                 record, timers, gap, fatal, logged, scenario, dispatches, closes,
                 proxyVars, sinkVars, waitVars, utilVars, targetVars, navVars>>

\* The script's process: the run and the handlers the script attaches to it.
NextCli == Next \/ RunThen \/ RunCatch \/ UnhandledRejection

\* ============================================== one BrowserHandler session
\* What new Date().getTime() reads when the session is constructed: any value
\* larger than every throttle, so that the first duration against
\* __lastPageLoad = 0 is never below the throttle.
Epoch == MaxThrottle + 1
MaxTime == Epoch + MaxElapsed

NavOps == {"goto", "goBack", "goForward", "clickAndNavigate", "tryOpenPage"}

\* A navigation-class call is issued on the session: o on the session's page,
\* or tryOpenPage(url, options) with options.throttle = opt.
StartCall(o, opt) ==
  /\ npc = "idle"
  /\ calls < MaxCalls
  /\ o # "tryOpenPage" => curPage = "open"
  /\ op' = o
  /\ optThrottle' = opt
  /\ inner' = FALSE
  /\ prevCallStart' = callStart
  /\ callStart' = now
  /\ navAt' = -1
  /\ calls' = calls + 1
  /\ created' = "none"
  /\ result' = "pending"
  /\ failed' = "none"
  /\ steps' = <<>>
  /\ closeCalls' = 0
  /\ usedAfterClose' = FALSE
  /\ npc' = "throttle"
  /\ UNCHANGED <<cfgVars, runVars, proxyVars, sinkVars, waitVars, utilVars, targetVars,
                 throttleMs, clearCookies, now, lastPageLoad, sleepUntil, curPage,
                 navigationTimeout, callTimeout, usedOptions>>

\* PageHandler.goto
Goto == StartCall("goto", 0)
\* PageHandler.goBack
GoBack == StartCall("goBack", 0)
\* PageHandler.goForward
GoForward == StartCall("goForward", 0)
\* PageHandler.clickAndNavigate
ClickAndNavigate == StartCall("clickAndNavigate", 0)
\* BrowserHandler.tryOpenPage
TryOpenPageCall == \E opt \in 0..MaxThrottle : StartCall("tryOpenPage", opt)

sleepTime_None(throttle, duration) == 0

\* BrowserHandler.throttle: utils.sleep(throttle - duration)
sleepTime(throttle, duration) == throttle - duration

\* BrowserHandler.throttle: options.throttle || this.__pageOptions__.throttle || 0.
\* Only the throttle(options) at the head of tryOpenPage is given options; the
\* four PageHandler operations, the goto inside tryOpenPage included, call
\* throttle() bare.
throttleOf(opt) == IF opt # 0 THEN opt ELSE throttleMs
ThrottleOption == IF op = "tryOpenPage" /\ ~inner THEN optThrottle ELSE 0

\* What follows the awaited throttle: newPage in tryOpenPage, maybeClearCookies
\* in the PageHandler operations.
AfterThrottle == IF op = "tryOpenPage" /\ ~inner THEN "newPage" ELSE "cookies"

\* BrowserHandler.throttle up to its await, or to its end when it does not sleep.
Throttle ==
  /\ npc = "throttle"
  /\ LET throttle == throttleOf(ThrottleOption)
         duration == now - lastPageLoad
     IN IF duration < throttle
        THEN /\ sleepUntil' = now + sleepTime(throttle, duration)
             /\ npc' = "sleep"
             /\ UNCHANGED <<lastPageLoad, steps>>
        ELSE /\ lastPageLoad' = now
             /\ npc' = AfterThrottle
             /\ steps' = Append(steps, "throttle")
             /\ UNCHANGED sleepUntil
  /\ UNCHANGED <<cfgVars, runVars, proxyVars, sinkVars, waitVars, utilVars, targetVars,
                 throttleMs, clearCookies, now, op, optThrottle, inner, callStart,
                 prevCallStart, navAt, calls, created, curPage, result, failed,
                 navigationTimeout, callTimeout, usedOptions, closeCalls,
                 usedAfterClose>>

\* utils.sleep resolves, no earlier than its delay; throttle stores the time.
ThrottleWake ==
  /\ npc = "sleep"
  /\ now >= sleepUntil
  /\ lastPageLoad' = now
  /\ sleepUntil' = 0
  /\ steps' = Append(steps, "throttle")
  /\ npc' = AfterThrottle
  /\ UNCHANGED <<cfgVars, runVars, proxyVars, sinkVars, waitVars, utilVars, targetVars,
                 throttleMs, clearCookies, now, op, optThrottle, inner, callStart,
                 prevCallStart, navAt, calls, created, curPage, result, failed,
                 navigationTimeout, callTimeout, usedOptions, closeCalls,
                 usedAfterClose>>

\* BrowserHandler.newPage inside tryOpenPage: browser.newPage() and every
\* configuration step resolve; tryOpenPage goes on to page.goto(url, options),
\* which is PageHandler.goto and throttles again.
NewPage ==
  /\ npc = "newPage"
  /\ created' = "open"
  /\ inner' = TRUE
  /\ steps' = <<>>
  /\ npc' = "throttle"
  /\ UNCHANGED <<cfgVars, runVars, proxyVars, sinkVars, waitVars, utilVars, targetVars,
                 throttleMs, clearCookies, now, lastPageLoad, op, optThrottle,
                 sleepUntil, callStart, prevCallStart, navAt, calls, curPage, result,
                 failed, navigationTimeout, callTimeout, usedOptions, closeCalls,
                 usedAfterClose>>

\* browser.newPage() itself rejects: no raw page exists; the catch of
\* tryOpenPage sets page = null and tryOpenPage returns it.
NewPageFails ==
  /\ npc = "newPage"
  /\ failed' = "create"
  /\ result' = "null"
  /\ npc' = "idle"
  /\ UNCHANGED <<cfgVars, runVars, proxyVars, sinkVars, waitVars, utilVars, targetVars,
                 throttleMs, clearCookies, now, lastPageLoad, op, optThrottle, inner,
                 sleepUntil, callStart, prevCallStart, navAt, calls, created, curPage,
                 navigationTimeout, callTimeout, steps, usedOptions, closeCalls,
                 usedAfterClose>>

\* browser.newPage() resolved and a later awaited step of newPage rejects
\* (setCacheEnabled, setRequestInterception, setExtraHTTPHeaders or the
\* unconditional setViewport).  The catch of tryOpenPage logs and sets
\* page = null; nothing in it closes rawPage.
NewPageConfigFails ==
  /\ npc = "newPage"
  /\ created' = "open"
  /\ failed' = "configure"
  /\ result' = "null"
  /\ npc' = "idle"
  /\ UNCHANGED <<cfgVars, runVars, proxyVars, sinkVars, waitVars, utilVars, targetVars,
                 throttleMs, clearCookies, now, lastPageLoad, op, optThrottle, inner,
                 sleepUntil, callStart, prevCallStart, navAt, calls, curPage,
                 navigationTimeout, callTimeout, steps, usedOptions, closeCalls,
                 usedAfterClose>>

\* utils.merge(...objects): Object.assign({}, ...objects), a later object's
\* value replacing an earlier one's for the same key.
merge_FirstWins(a, b) ==
  [k \in DOMAIN a \cup DOMAIN b |-> IF k \in DOMAIN a THEN a[k] ELSE b[k]]
merge(a, b) ==
  [k \in DOMAIN a \cup DOMAIN b |-> IF k \in DOMAIN b THEN b[k] ELSE a[k]]

\* PageHandler constructor: this.__navigationOptions__.
NAVIGATION_TIMEOUT == 60000
navigationOptions ==
  [timeout |-> IF navigationTimeout # 0 THEN navigationTimeout ELSE NAVIGATION_TIMEOUT,
   waitUntil |-> "load,networkidle0"]

\* The options argument of goto / goBack / goForward (the goto inside
\* tryOpenPage is handed tryOpenPage's options): with or without a timeout.
\* clickAndNavigate has no options parameter.
Absent == -1
NoOptions == [k \in {} |-> 0]
CallOptions(t) == IF t = Absent THEN NoOptions ELSE [timeout |-> t]
CallTimeouts(o) ==
  IF o = "clickAndNavigate" THEN {Absent} ELSE {Absent} \cup 0..MaxTimeoutOption

\* What the operation hands to the engine: goto / goBack / goForward merge
\* their options over __navigationOptions__, clickAndNavigate hands
\* __navigationOptions__ to page.waitForNavigation.
fullOptions(o, options) ==
  IF o = "clickAndNavigate" THEN navigationOptions
  ELSE merge(navigationOptions, options)

\* PageHandler.maybeClearCookies resolves and the engine navigation is
\* started in the same turn (page.goto / goBack / goForward, or the click of
\* clickAndNavigate) with the merged options.
MaybeClearCookies ==
  /\ npc = "cookies"
  /\ \E t \in CallTimeouts(op) :
       /\ callTimeout' = t
       /\ usedOptions' = fullOptions(op, CallOptions(t))
  /\ steps' = steps \o (IF clearCookies THEN <<"cookies">> ELSE <<>>) \o <<"navigate">>
  /\ navAt' = now
  /\ usedAfterClose' = (usedAfterClose \/ closeCalls > 0)
  /\ npc' = "nav"
  /\ UNCHANGED <<cfgVars, runVars, proxyVars, sinkVars, waitVars, utilVars, targetVars,
                 throttleMs, clearCookies, now, lastPageLoad, op, optThrottle, inner,
                 sleepUntil, callStart, prevCallStart, calls, created, curPage, result,
                 failed, navigationTimeout, closeCalls>>

\* What a rejection inside goto does to the call: inside tryOpenPage it is
\* caught and the page is closed; a PageHandler operation rejects.
Rejected(step) ==
  /\ failed' = step
  /\ callTimeout' = Absent
  /\ usedOptions' = NoOptions
  /\ IF op = "tryOpenPage"
     THEN npc' = "close" /\ UNCHANGED result
     ELSE npc' = "idle" /\ result' = "throw"

\* page.cookies() or page.deleteCookie() rejects, before any navigation.
MaybeClearCookiesFails ==
  /\ npc = "cookies"
  /\ clearCookies
  /\ steps' = Append(steps, "cookies")
  /\ Rejected("cookies")
  /\ UNCHANGED <<cfgVars, runVars, proxyVars, sinkVars, waitVars, utilVars, targetVars,
                 throttleMs, clearCookies, now, lastPageLoad, op, optThrottle, inner,
                 sleepUntil, callStart, prevCallStart, navAt, calls, created, curPage,
                 navigationTimeout, closeCalls, usedAfterClose>>

\* The engine navigation completes.
Navigated ==
  /\ npc = "nav"
  /\ closeCalls = 0
  /\ result' = CASE op = "tryOpenPage" -> "page"
                 [] op = "clickAndNavigate" -> "true"
                 [] OTHER -> "response"
  /\ curPage' = IF op = "tryOpenPage" THEN "open" ELSE curPage
  /\ callTimeout' = Absent
  /\ usedOptions' = NoOptions
  /\ npc' = "idle"
  /\ UNCHANGED <<cfgVars, runVars, proxyVars, sinkVars, waitVars, utilVars, targetVars,
                 throttleMs, clearCookies, now, lastPageLoad, op, optThrottle, inner,
                 sleepUntil, callStart, prevCallStart, navAt, calls, created, failed,
                 navigationTimeout, steps, closeCalls, usedAfterClose>>

clickAndNavigateCatch_Rethrow(error) == "throw"

\* The catch block of clickAndNavigate, around the Promise.all of
\* page.waitForNavigation and elementHandle.click: success = false.
clickAndNavigateCatch(error) == "false"

\* The engine navigation fails (navigation timeout) or, in clickAndNavigate,
\* the click rejects.  clickAndNavigate catches either and returns false.
NavigationFails ==
  /\ npc = "nav"
  /\ IF op = "clickAndNavigate"
     THEN /\ \E error \in {"navigation", "click"} :
               /\ failed' = error
               /\ result' = clickAndNavigateCatch(error)
          /\ callTimeout' = Absent
          /\ usedOptions' = NoOptions
          /\ npc' = "idle"
     ELSE Rejected("navigation")
  /\ UNCHANGED <<cfgVars, runVars, proxyVars, sinkVars, waitVars, utilVars, targetVars,
                 throttleMs, clearCookies, now, lastPageLoad, op, optThrottle, inner,
                 sleepUntil, callStart, prevCallStart, navAt, calls, created, curPage,
                 navigationTimeout, steps, closeCalls, usedAfterClose>>

\* tryOpenPage's page.close() after a failed goto: PageHandler.close resolves.
ClosePage ==
  /\ npc = "close"
  /\ closeCalls = 0 \/ ~clearCookies
  /\ created' = "closed"
  /\ closeCalls' = closeCalls + 1
  /\ usedAfterClose' = (usedAfterClose \/ closeCalls > 0)
  /\ result' = "null"
  /\ npc' = "idle"
  /\ UNCHANGED <<cfgVars, runVars, proxyVars, sinkVars, waitVars, utilVars, targetVars,
                 throttleMs, clearCookies, now, lastPageLoad, op, optThrottle, inner,
                 sleepUntil, callStart, prevCallStart, navAt, calls, curPage, failed,
                 navigationTimeout, callTimeout, steps, usedOptions>>

\* maybeClearCookies inside PageHandler.close rejects: the raw page.close() is
\* never reached; tryOpenPage logs and returns null.
ClosePageCookiesFail ==
  /\ npc = "close"
  /\ clearCookies
  /\ usedAfterClose' = (usedAfterClose \/ closeCalls > 0)
  /\ result' = "null"
  /\ npc' = "idle"
  /\ UNCHANGED <<cfgVars, runVars, proxyVars, sinkVars, waitVars, utilVars, targetVars,
                 throttleMs, clearCookies, now, lastPageLoad, op, optThrottle, inner,
                 sleepUntil, callStart, prevCallStart, navAt, calls, created, curPage,
                 failed, navigationTimeout, callTimeout, steps, usedOptions,
                 closeCalls>>

\* The raw page.close() rejects: the engine may or may not have closed it.
ClosePageFails ==
  /\ npc = "close"
  /\ closeCalls = 0 \/ ~clearCookies
  /\ created' \in (IF closeCalls = 0 THEN {"open", "closed"} ELSE {"closed"})
  /\ closeCalls' = closeCalls + 1
  /\ usedAfterClose' = (usedAfterClose \/ closeCalls > 0)
  /\ result' = "null"
  /\ npc' = "idle"
  /\ UNCHANGED <<cfgVars, runVars, proxyVars, sinkVars, waitVars, utilVars, targetVars,
                 throttleMs, clearCookies, now, lastPageLoad, op, optThrottle, inner,
                 sleepUntil, callStart, prevCallStart, navAt, calls, curPage, failed,
                 navigationTimeout, callTimeout, steps, usedOptions>>

\* The "error" handler newPage installs on the raw page: the page crashes
\* while tryOpenPage is still at work on it, and the handler logs and calls
\* rawPage.close().  A page crashes once.
PageCrash ==
  /\ op = "tryOpenPage" /\ inner
  /\ npc \in {"throttle", "sleep", "cookies", "nav"}
  /\ created = "open" /\ closeCalls = 0
  /\ closeCalls' = 1
  /\ created' = "closed"
  /\ UNCHANGED <<cfgVars, runVars, proxyVars, sinkVars, waitVars, utilVars, targetVars,
                 throttleMs, clearCookies, now, lastPageLoad, npc, op, optThrottle,
                 inner, sleepUntil, callStart, prevCallStart, navAt, calls, curPage,
                 result, failed, navigationTimeout, callTimeout, steps, usedOptions,
                 usedAfterClose>>

\* Time passes while the call waits on the engine or on a timer, and between
\* calls.
TimedNpcs == {"idle", "sleep", "newPage", "cookies", "nav", "close"}
NavTick ==
  /\ npc \in TimedNpcs
  /\ now < MaxTime
  /\ now' = now + 1
  /\ UNCHANGED <<cfgVars, runVars, proxyVars, sinkVars, waitVars, utilVars, targetVars,
                 throttleMs, clearCookies, lastPageLoad, npc, op, optThrottle, inner,
                 sleepUntil, callStart, prevCallStart, navAt, calls, created, curPage,
                 result, failed, navigationTimeout, callTimeout, steps, usedOptions,
                 closeCalls, usedAfterClose>>

NextNav ==
  \/ Goto \/ GoBack \/ GoForward \/ ClickAndNavigate \/ TryOpenPageCall
  \/ Throttle \/ ThrottleWake
  \/ NewPage \/ NewPageFails \/ NewPageConfigFails
  \/ MaybeClearCookies \/ MaybeClearCookiesFails
  \/ Navigated \/ NavigationFails
  \/ ClosePage \/ ClosePageCookiesFail \/ ClosePageFails
  \/ PageCrash
  \/ NavTick

\* ========================================================= the proxy layer
Kinds == {"browser", "page", "frame", "element"}
None == [tag |-> "none"]

\* Engine (puppeteer) handles: they are made by the engine only.
Raw(kind, id) == [tag |-> "raw", kind |-> kind, id |-> id]
RawBrowser == Raw("browser", 1)
RawPages(n) == {Raw("page", i) : i \in 1..n}
RawFrames == {Raw("frame", i) : i \in 1..MaxFrames}
RawElements == {Raw("element", i) : i \in 1..MaxElements}
\* What evaluateHandle and the waitFor* operations resolve to: a JSHandle,
\* which is an ElementHandle when the value is a DOM node.
RawJSHandles == RawElements \cup {Raw("jshandle", 1)}

\* new Proxy(target, handler); ctx is the __page__ of an ElementHandleHandler.
Proxy(kind, proxied, context) ==
  [tag |-> "view", kind |-> kind, target |-> proxied, ctx |-> context]
browserProxy(rawBrowser) == Proxy("browser", rawBrowser, None)
pageProxy(rawPage) == Proxy("page", rawPage, None)
frameProxy(frame) == Proxy("frame", frame, None)
elementHandleProxy(ofPage, elementHandle) == Proxy("element", elementHandle, ofPage)

\* The members each handler class declares (methods), and the fields its
\* constructor sets on the handler object.
Methods(kind) ==
  CASE kind = "element" ->
         {"$$", "$", "text", "cleanText", "prop", "setProp", "attr", "href",
          "parentNode", "evaluate"}
    [] kind = "page" ->
         {"frames", "mainFrame", "findFrame", "$$", "$", "waitForFunction",
          "waitForSelector", "maybeClearCookies", "waitForXPath", "browser",
          "goto", "goBack", "goForward", "clickAndNavigate", "text", "cleanText",
          "fullUrl", "scrollToTop", "scrollToBottom", "close"}
    [] kind = "frame" -> {"$$", "$", "childFrames"}
    [] kind = "browser" ->
         {"newPage", "tryOpenPage", "throttle", "pages", "currentPage",
          "closeCurrentPage"}
Fields(kind) ==
  CASE kind = "element" -> {"__page__"}
    [] kind = "page" ->
         {"__browserHandler__", "__clearCookies__", "__navigationOptions__",
          "__waitOptions__"}
    [] kind = "frame" -> {}
    [] kind = "browser" ->
         {"__browserConsole__", "__userAgent__", "__loadImages__", "__loadAds__",
          "__adclient__", "__pageOptions__", "__clearCookies__", "__clearCache__",
          "__pageViewport__", "__lastPageLoad"}
\* Whether the field's value is truthy.  Options the model has no variable
\* for have the value utils.boolify gives them when the option is absent.
FieldTruthy(key) ==
  CASE key = "__clearCookies__" -> clearCookies
    [] key = "__lastPageLoad" -> lastPageLoad # 0
    [] key = "__loadAds__" -> ads
    [] key = "__loadImages__" -> images
    [] key = "__adclient__" -> sessionAdclient # "null"
    [] key \in {"__browserConsole__", "__clearCache__"} -> FALSE
    [] OTHER -> TRUE
\* What every handler object inherits: BaseHandler.prototype and, under it,
\* Object.prototype.
BaseMembers == {"get", "constructor"}
ObjectMembers == {"toString", "toLocaleString", "valueOf", "hasOwnProperty",
                  "isPrototypeOf", "propertyIsEnumerable"}
\* Members of the engine's handles that no handler names.
EngineMembers == {"url", "click", "title", "evaluateHandle"}
Keys == UNION {Methods(k) \cup Fields(k) : k \in Kinds}
          \cup BaseMembers \cup ObjectMembers \cup EngineMembers \cup {"__proto__"}

\* this[key] on the handler object of a view of the given kind: own fields,
\* then the class's methods, then the inherited members.
localValue(kind, key) ==
  CASE key \in Fields(kind) ->
         [truthy |-> FieldTruthy(key), isFunction |-> FALSE, owner |-> "field"]
    [] key \in Methods(kind) ->
         [truthy |-> TRUE, isFunction |-> TRUE, owner |-> kind]
    [] key \in BaseMembers ->
         [truthy |-> TRUE, isFunction |-> TRUE, owner |-> "BaseHandler"]
    [] key \in ObjectMembers ->
         [truthy |-> TRUE, isFunction |-> TRUE, owner |-> "Object"]
    [] key = "__proto__" ->
         [truthy |-> TRUE, isFunction |-> FALSE, owner |-> "Object"]
    [] OTHER -> [truthy |-> FALSE, isFunction |-> FALSE, owner |-> "none"]

\* BaseHandler.get(target, key): throws on a truthy non-function, returns a
\* wrapper of the handler's function, or else target[key].
get(kind, key) ==
  LET lv == localValue(kind, key)
  IN IF lv.truthy
     THEN IF ~lv.isFunction
          THEN [kind |-> kind, key |-> key, outcome |-> "throw", owner |-> lv.owner]
          ELSE [kind |-> kind, key |-> key, outcome |-> "wrapper", owner |-> lv.owner]
     ELSE [kind |-> kind, key |-> key, outcome |-> "target", owner |-> "target"]
NoRead == [kind |-> "none", key |-> "none", outcome |-> "none", owner |-> "none"]

\* Calling view.key(...) reaches the handler's own method, which is handed
\* the view's target as its first argument.
Calls(kind, key) ==
  /\ held.kind = kind
  /\ get(kind, key).outcome = "wrapper"
  /\ get(kind, key).owner = kind

evaluate_Wrapping(ofPage, rawHandle) == elementHandleProxy(ofPage, rawHandle)

\* ElementHandleHandler.evaluate: what this.__page__.evaluateHandle resolved
\* to, as it is.
evaluate(ofPage, rawHandle) == rawHandle

\* A network request the engine raises on a raw page: its resource type,
\* whether the block lists match its URL, and the calls made on it.
ResourceKinds == {"image", "document"}
NoRequest == [page |-> 0, kind |-> "none", matches |-> FALSE, calls |-> <<>>]

\* BrowserHandler.newPage: "if (!this.__loadImages__ || this.__adclient__)"
\* turns request interception on and installs the request handler.
Intercepts == ~images \/ sessionAdclient # "null"
Install(pages, id) == IF Intercepts THEN pages \cup {id} ELSE pages

requestHandler_ImagesOnly(kind, matches) ==
  IF ~images /\ kind = "image" THEN "abort" ELSE "continue"

\* The handler of page.on("request", ...): the call it makes on the request.
requestHandler(kind, matches) ==
  LET abortForImage == ~images /\ kind = "image"
      abortForAd == sessionAdclient # "null" /\ matches
  IN IF abortForImage \/ abortForAd THEN "abort" ELSE "continue"

\* What element.getAttribute(name) gives in the page: null when the element
\* has no such attribute, else the attribute's text (which may be empty).
AttributeValues == {"null", "", "text"}
NoAttr == [nargs |-> 0, matches |-> FALSE, attribute |-> "null", outcome |-> "none",
          value |-> "null"]

\* ElementHandleHandler.attr(name) / attr(selector, name) on an element that
\* has the attribute value `attribute`, or whose descendant matching the
\* selector (when there is one: matches) has it.  With a selector the element
\* is replaced by "await elementHandle.$(selector)", which is null without a
\* match; evaluating "element.getAttribute(name)" on null throws in the page
\* and page.evaluateHandle rejects.  Otherwise the handle's jsonValue() is
\* returned, or "" when that is falsy.
attr(nargs, matches, attribute) ==
  LET elementHandle == IF nargs = 2 /\ ~matches THEN "null" ELSE "element"
  IN IF elementHandle = "null"
       THEN [nargs |-> nargs, matches |-> matches, attribute |-> attribute,
             outcome |-> "throw", value |-> "null"]
       ELSE [nargs |-> nargs, matches |-> matches, attribute |-> attribute,
             outcome |-> "return",
             value |-> IF attribute \in {"null", ""} THEN "" ELSE attribute]

\* An operation returns values to the caller.
Return(o, values) ==
  /\ ret' = values
  /\ retOp' = o
  /\ lastRead' = NoRead
  /\ request' = NoRequest
  /\ attrResult' = NoAttr

\* The caller keeps a view it was handed and goes on to use it.
Keep ==
  \E h \in ret :
    /\ h.tag = "view"
    /\ held' = h
    /\ Return("keep", {})
  /\ UNCHANGED <<cfgVars, runVars, nPages, images, sessionAdclient, intercepting,
                 sinkVars, waitVars, utilVars, targetVars, navVars>>

\* A member is read through the view the caller holds: the get trap.
ReadMember ==
  \E key \in Keys :
    /\ ret' = {}
    /\ retOp' = "get"
    /\ lastRead' = get(held.kind, key)
    /\ request' = NoRequest
    /\ attrResult' = NoAttr
  /\ UNCHANGED <<cfgVars, runVars, held, nPages, images, sessionAdclient, intercepting,
                 sinkVars, waitVars, utilVars, targetVars, navVars>>

\* BrowserHandler.newPage: browser.newPage() makes a raw page; its view is
\* returned.  tryOpenPage returns the same view, or null.
BrowserNewPage ==
  /\ Calls("browser", "newPage")
  /\ nPages < MaxPages
  /\ nPages' = nPages + 1
  /\ intercepting' = Install(intercepting, nPages + 1)
  /\ Return("newPage", {pageProxy(Raw("page", nPages + 1))})
  /\ UNCHANGED <<cfgVars, runVars, held, images, sessionAdclient, sinkVars, waitVars,
                 utilVars, targetVars, navVars>>

\* BrowserHandler.tryOpenPage: the view made by this.newPage(browser), or null.
BrowserTryOpenPage ==
  /\ Calls("browser", "tryOpenPage")
  /\ nPages < MaxPages
  /\ \E loaded \in BOOLEAN :
       /\ nPages' = IF loaded THEN nPages + 1 ELSE nPages
       /\ intercepting' = IF loaded THEN Install(intercepting, nPages + 1)
                                    ELSE intercepting
       /\ Return("tryOpenPage",
                 IF loaded THEN {pageProxy(Raw("page", nPages + 1))} ELSE {})
  /\ UNCHANGED <<cfgVars, runVars, held, images, sessionAdclient, sinkVars, waitVars,
                 utilVars, targetVars, navVars>>

\* The engine raises a request on one of its pages.  On a page that has the
\* handler of newPage installed the handler runs; on any other page the
\* request is not intercepted and nothing is called on it.
PageRequest ==
  /\ \E id \in 1..nPages, kind \in ResourceKinds, matches \in BOOLEAN :
       request' = [page |-> id, kind |-> kind, matches |-> matches,
                   calls |-> IF id \in intercepting
                               THEN <<requestHandler(kind, matches)>>
                               ELSE <<>>]
  /\ ret' = {}
  /\ retOp' = "request"
  /\ lastRead' = NoRead
  /\ attrResult' = NoAttr
  /\ UNCHANGED <<cfgVars, runVars, held, nPages, images, sessionAdclient, intercepting,
                 sinkVars, waitVars, utilVars, targetVars, navVars>>

\* BrowserHandler.pages: browser.pages() mapped through pageProxy.
BrowserPages ==
  /\ Calls("browser", "pages")
  /\ Return("pages", {pageProxy(p) : p \in RawPages(nPages)})
  /\ UNCHANGED <<cfgVars, runVars, held, nPages, images, sessionAdclient, intercepting,
                 sinkVars, waitVars, utilVars, targetVars, navVars>>

\* BrowserHandler.currentPage: the last of browser.pages(), or null.
BrowserCurrentPage ==
  /\ Calls("browser", "currentPage")
  /\ Return("currentPage",
            IF nPages > 0 THEN {pageProxy(Raw("page", nPages))} ELSE {})
  /\ UNCHANGED <<cfgVars, runVars, held, nPages, images, sessionAdclient, intercepting,
                 sinkVars, waitVars, utilVars, targetVars, navVars>>

\* PageHandler.frames: page.frames() mapped through frameProxy.
PageFrames ==
  /\ Calls("page", "frames")
  /\ \E frames \in SUBSET RawFrames :
       /\ frames # {}
       /\ Return("frames", {frameProxy(frame) : frame \in frames})
  /\ UNCHANGED <<cfgVars, runVars, held, nPages, images, sessionAdclient, intercepting,
                 sinkVars, waitVars, utilVars, targetVars, navVars>>

\* PageHandler.mainFrame
PageMainFrame ==
  /\ Calls("page", "mainFrame")
  /\ Return("mainFrame", {frameProxy(Raw("frame", 1))})
  /\ UNCHANGED <<cfgVars, runVars, held, nPages, images, sessionAdclient, intercepting,
                 sinkVars, waitVars, utilVars, targetVars, navVars>>

\* PageHandler.findFrame: the first frame whose url includes the text, or null.
PageFindFrame ==
  /\ Calls("page", "findFrame")
  /\ \E found \in SUBSET RawFrames :
       /\ Cardinality(found) <= 1
       /\ Return("findFrame", {frameProxy(frame) : frame \in found})
  /\ UNCHANGED <<cfgVars, runVars, held, nPages, images, sessionAdclient, intercepting,
                 sinkVars, waitVars, utilVars, targetVars, navVars>>

\* PageHandler.$$ and FrameHandler.$$: the raw handles mapped through
\* elementHandleProxy(page), page being the view's target.
QueryAll(k) ==
  /\ Calls(k, "$$")
  /\ LET ofPage == held.target
     IN \E rawElementHandles \in SUBSET RawElements :
          Return("$$", {elementHandleProxy(ofPage, h) : h \in rawElementHandles})
  /\ UNCHANGED <<cfgVars, runVars, held, nPages, images, sessionAdclient, intercepting,
                 sinkVars, waitVars, utilVars, targetVars, navVars>>
PageQueryAll == QueryAll("page")
FrameQueryAll == QueryAll("frame")

\* PageHandler.$ and FrameHandler.$: null, or the proxied raw handle.
Query(k) ==
  /\ Calls(k, "$")
  /\ LET ofPage == held.target
     IN \E found \in SUBSET RawElements :
          /\ Cardinality(found) <= 1
          /\ Return("$", {elementHandleProxy(ofPage, h) : h \in found})
  /\ UNCHANGED <<cfgVars, runVars, held, nPages, images, sessionAdclient, intercepting,
                 sinkVars, waitVars, utilVars, targetVars, navVars>>
PageQuery == Query("page")
FrameQuery == Query("frame")

\* PageHandler.waitForFunction / waitForSelector / waitForXPath: the merged
\* options are passed on and what the engine resolves to is returned as it is.
WaitFor(o) ==
  /\ Calls("page", o)
  /\ \E handle \in RawJSHandles : Return(o, {handle})
  /\ UNCHANGED <<cfgVars, runVars, held, nPages, images, sessionAdclient, intercepting,
                 sinkVars, waitVars, utilVars, targetVars, navVars>>
PageWaitForFunction == WaitFor("waitForFunction")
PageWaitForSelector == WaitFor("waitForSelector")
PageWaitForXPath == WaitFor("waitForXPath")

\* PageHandler.browser: new Proxy(page.browser(), this.__browserHandler__)
PageBrowser ==
  /\ Calls("page", "browser")
  /\ Return("browser", {browserProxy(RawBrowser)})
  /\ UNCHANGED <<cfgVars, runVars, held, nPages, images, sessionAdclient, intercepting,
                 sinkVars, waitVars, utilVars, targetVars, navVars>>

\* FrameHandler.childFrames
FrameChildFrames ==
  /\ Calls("frame", "childFrames")
  /\ \E frames \in SUBSET RawFrames :
       Return("childFrames", {frameProxy(frame) : frame \in frames})
  /\ UNCHANGED <<cfgVars, runVars, held, nPages, images, sessionAdclient, intercepting,
                 sinkVars, waitVars, utilVars, targetVars, navVars>>

\* ElementHandleHandler.$$: proxied with the handler's own __page__.
ElementQueryAll ==
  /\ Calls("element", "$$")
  /\ \E rawElementHandles \in SUBSET RawElements :
       Return("element.$$",
              {elementHandleProxy(held.ctx, h) : h \in rawElementHandles})
  /\ UNCHANGED <<cfgVars, runVars, held, nPages, images, sessionAdclient, intercepting,
                 sinkVars, waitVars, utilVars, targetVars, navVars>>

\* ElementHandleHandler.$
ElementQuery ==
  /\ Calls("element", "$")
  /\ \E found \in SUBSET RawElements :
       /\ Cardinality(found) <= 1
       /\ Return("element.$",
                 {elementHandleProxy(held.ctx, h) : h \in found})
  /\ UNCHANGED <<cfgVars, runVars, held, nPages, images, sessionAdclient, intercepting,
                 sinkVars, waitVars, utilVars, targetVars, navVars>>

\* ElementHandleHandler.attr, called by the holder of the view.
ElementAttr ==
  /\ Calls("element", "attr")
  /\ \E nargs \in 1..2, matches \in BOOLEAN, attribute \in AttributeValues :
       attrResult' = attr(nargs, matches, attribute)
  /\ ret' = {}
  /\ retOp' = "attr"
  /\ lastRead' = NoRead
  /\ request' = NoRequest
  /\ UNCHANGED <<cfgVars, runVars, held, nPages, images, sessionAdclient, intercepting,
                 sinkVars, waitVars, utilVars, targetVars, navVars>>

\* ElementHandleHandler.parentNode: this.evaluate(...) and then
\* elementHandleProxy(this.__page__)(raw).
ElementParentNode ==
  /\ Calls("element", "parentNode")
  /\ LET ofPage == held.ctx
     IN \E raw \in RawJSHandles :
          Return("parentNode", {elementHandleProxy(ofPage, evaluate(ofPage, raw))})
  /\ UNCHANGED <<cfgVars, runVars, held, nPages, images, sessionAdclient, intercepting,
                 sinkVars, waitVars, utilVars, targetVars, navVars>>

\* ElementHandleHandler.evaluate, called by the holder of the view.
ElementEvaluate ==
  /\ Calls("element", "evaluate")
  /\ \E raw \in RawJSHandles :
       Return("evaluate", {evaluate(held.ctx, raw)})
  /\ UNCHANGED <<cfgVars, runVars, held, nPages, images, sessionAdclient, intercepting,
                 sinkVars, waitVars, utilVars, targetVars, navVars>>

\* ElementHandleHandler.setProp: returns the result of this.evaluate(...).
ElementSetProp ==
  /\ Calls("element", "setProp")
  /\ Return("setProp", {evaluate(held.ctx, Raw("jshandle", 1))})
  /\ UNCHANGED <<cfgVars, runVars, held, nPages, images, sessionAdclient, intercepting,
                 sinkVars, waitVars, utilVars, targetVars, navVars>>

NextProxy ==
  \/ Keep \/ ReadMember
  \/ BrowserNewPage \/ BrowserTryOpenPage \/ BrowserPages \/ BrowserCurrentPage
  \/ PageRequest
  \/ PageFrames \/ PageMainFrame \/ PageFindFrame \/ PageQueryAll \/ PageQuery
  \/ PageWaitForFunction \/ PageWaitForSelector \/ PageWaitForXPath \/ PageBrowser
  \/ FrameQueryAll \/ FrameQuery \/ FrameChildFrames
  \/ ElementQueryAll \/ ElementQuery \/ ElementParentNode \/ ElementEvaluate
  \/ ElementAttr
  \/ ElementSetProp

\* ================================================== one LocalFileProcessor
\* "throw ProcessorError(...)": the class is called without new, which
\* itself throws a TypeError before any ProcessorError exists.
ThrowProcessorError == "TypeError"

\* LocalFileProcessor.open: how the call ends and what this.stream is then.
\* "fs.createWriteStream(path, options)" names two identifiers the module
\* does not bind (the constructor stored them as this.path and
\* this.options), so evaluating the arguments throws a ReferenceError and
\* this.stream is not assigned.
LocalFileProcessor_open(st) ==
  IF st # "null" THEN [outcome |-> ThrowProcessorError, stream |-> st]
  ELSE [outcome |-> "ReferenceError", stream |-> st]

\* LocalFileProcessor.process
LocalFileProcessor_process(st) ==
  IF st = "null" THEN [outcome |-> ThrowProcessorError, stream |-> st]
  ELSE [outcome |-> "ok", stream |-> st]

\* LocalFileProcessor.close
LocalFileProcessor_close(st) ==
  IF st = "null" THEN [outcome |-> ThrowProcessorError, stream |-> st]
  ELSE [outcome |-> "ok", stream |-> "null"]

\* A call is made on the processor and settles.
SinkCall(name, r) ==
  /\ Len(sinkCalls) < MaxSinkCalls
  /\ sinkCalls' = Append(sinkCalls, [call |-> name, before |-> stream,
                                     outcome |-> r.outcome, after |-> r.stream])
  /\ stream' = r.stream
  /\ UNCHANGED <<cfgVars, runVars, proxyVars, waitVars, utilVars, targetVars, navVars>>
LocalFileOpen == SinkCall("open", LocalFileProcessor_open(stream))
LocalFileProcess == SinkCall("process", LocalFileProcessor_process(stream))
LocalFileClose == SinkCall("close", LocalFileProcessor_close(stream))

NextSink == LocalFileOpen \/ LocalFileProcess \/ LocalFileClose

\* ==================================== the wait helpers of one PageHandler
\* PageHandler constructor: this.__waitOptions__, with
\* "options.waitTimeout || this.constructor.WAIT_TIMEOUT".
WAIT_TIMEOUT == 30000
waitOptions ==
  [timeout |-> IF waitTimeout # Absent /\ waitTimeout # 0 THEN waitTimeout
               ELSE WAIT_TIMEOUT]

\* The options argument of a wait helper: a timeout, visible and hidden,
\* each given or not.
WaitCallOptions(t, visible, hidden) ==
  merge(merge(CallOptions(t), IF visible THEN [visible |-> TRUE] ELSE NoOptions),
        IF hidden THEN [hidden |-> TRUE] ELSE NoOptions)
NoWait == [op |-> "none", options |-> NoOptions, fullOptions |-> NoOptions]

\* waitForFunction / waitForSelector / waitForXPath: the engine's operation
\* is called with utils.merge(this.__waitOptions__, options).
WaitHelper(o) ==
  /\ \E t \in {Absent} \cup 0..MaxTimeoutOption, visible \in BOOLEAN, hidden \in BOOLEAN :
       LET options == WaitCallOptions(t, visible, hidden)
       IN waitCall' = [op |-> o, options |-> options,
                       fullOptions |-> merge(waitOptions, options)]
  /\ UNCHANGED <<cfgVars, runVars, proxyVars, sinkVars, waitTimeout, utilVars,
                 targetVars, navVars>>
\* PageHandler.waitForFunction
WaitForFunctionCall == WaitHelper("waitForFunction")
\* PageHandler.waitForSelector
WaitForSelectorCall == WaitHelper("waitForSelector")
\* PageHandler.waitForXPath
WaitForXPathCall == WaitHelper("waitForXPath")

NextWait == WaitForFunctionCall \/ WaitForSelectorCall \/ WaitForXPathCall

\* ================================================== the library's helpers
\* Strings are sequences of characters. The characters that matter to
\* cleanWhitespace: letters, the space, the tab and the newline (which the
\* replace names) and the carriage return (whitespace to \s and to trim
\* that the replace does not name).
Letters == {"A", "B"}
WhiteSpace == {" ", "\t", "\n", "\r"}
Chars == Letters \cup WhiteSpace
Null == <<"null">>
Strings == UNION {[1..n -> Chars] : n \in 0..MaxTextLen}

\* s.replace(/\t|\n/g, " ")
replace(s) == [i \in 1..Len(s) |-> IF s[i] \in {"\t", "\n"} THEN " " ELSE s[i]]

\* s.split(/\s+/): the pieces between the maximal runs of whitespace; a
\* string that starts or ends with whitespace gives an empty first or last
\* piece.
RECURSIVE splitFrom(_, _, _, _, _)
splitFrom(s, i, piece, pieces, inRun) ==
  IF i > Len(s) THEN Append(pieces, piece)
  ELSE IF s[i] \in WhiteSpace
       THEN IF inRun THEN splitFrom(s, i + 1, piece, pieces, TRUE)
            ELSE splitFrom(s, i + 1, <<>>, Append(pieces, piece), TRUE)
       ELSE splitFrom(s, i + 1, Append(piece, s[i]), pieces, FALSE)
split(s) == splitFrom(s, 1, <<>>, <<>>, FALSE)

\* pieces.join(" ")
RECURSIVE join(_)
join(pieces) ==
  IF pieces = <<>> THEN <<>>
  ELSE IF Len(pieces) = 1 THEN pieces[1]
  ELSE pieces[1] \o <<" ">> \o join(Tail(pieces))

\* s.trim()
RECURSIVE trimStart(_)
trimStart(s) == IF s # <<>> /\ Head(s) \in WhiteSpace THEN trimStart(Tail(s)) ELSE s
RECURSIVE trimEnd(_)
trimEnd(s) ==
  IF s # <<>> /\ s[Len(s)] \in WhiteSpace THEN trimEnd(SubSeq(s, 1, Len(s) - 1)) ELSE s
trim_None(s) == s
trim(s) == trimEnd(trimStart(s))

\* utils.cleanWhitespace: "if (!s) return s" hands null and the empty
\* string back.
cleanWhitespace(s) ==
  IF s = Null \/ s = <<>> THEN s ELSE trim(join(split(replace(s))))

\* One application: the helper called, what cleanWhitespace was handed and
\* what it returned.
Application(helper, s) == [via |-> helper, arg |-> s, value |-> cleanWhitespace(s)]

\* cleanWhitespace is applied to rawText, and then to the last result.
CleanWhitespace ==
  /\ Len(cleaned) < MaxApplications
  /\ cleaned' = Append(cleaned,
                       Application("cleanWhitespace",
                                   IF cleaned = <<>> THEN rawText
                                   ELSE cleaned[Len(cleaned)].value))
  /\ UNCHANGED <<cfgVars, runVars, proxyVars, sinkVars, waitVars, rawText, made,
                 targetVars, navVars>>

\* ElementHandleHandler.text: the element's innerText, "result || ''": the
\* empty string when none was obtained.
text(innerText) == IF innerText = Null THEN <<>> ELSE innerText

\* ElementHandleHandler.cleanText on an element whose innerText is rawText:
\* cleanWhitespace is applied to what text() returns.
CleanText ==
  /\ cleaned = <<>>
  /\ cleaned' = <<Application("cleanText", text(rawText))>>
  /\ UNCHANGED <<cfgVars, runVars, proxyVars, sinkVars, waitVars, rawText, made,
                 targetVars, navVars>>

\* The error classes of the library: BaseError and the classes declared
\* "extends errors.BaseError". constructor.name of an instance is the name
\* its class was declared with.
ErrorClasses == {"BaseError", "RecordError", "ProcessorError"}
Messages == {"undefined", "text"}
ErrorPrototypeName == "Error"
constructorName_Base(class) == "BaseError"
constructorName(class) == class

\* BaseError constructor, run for "new class(message)":
\* this.name = this.constructor.name || this.name.
BaseError(class, message) ==
  [class |-> class, message |-> message,
   name |-> IF constructorName(class) # "" THEN constructorName(class)
            ELSE ErrorPrototypeName]
NoError == [class |-> "none", message |-> "undefined", name |-> ""]

\* new BaseError(...), new RecordError(...), new ProcessorError(...)
NewError ==
  /\ \E class \in ErrorClasses, message \in Messages :
       made' = BaseError(class, message)
  /\ UNCHANGED <<cfgVars, runVars, proxyVars, sinkVars, waitVars, rawText, cleaned,
                 targetVars, navVars>>

NextUtil == CleanWhitespace \/ CleanText \/ NewError

\* ============================================== the targets of a Scraper
\* JavaScript values a target argument can be: null (or undefined), a
\* string, an object with a url key, an array of strings and such objects.
JsNull == [t |-> "null"]
Str(v) == [t |-> "string", v |-> v]
Obj(u) == [t |-> "object", url |-> u]
Arr(items) == [t |-> "array", items |-> items]
Atoms == {Str("a"), Str("b"), Obj("a")}
TargetArgs ==
  {JsNull, Str("")} \cup Atoms
    \cup {Arr(items) : items \in UNION {[1..n -> Atoms] : n \in 0..MaxTargetList}}

\* The truth value JavaScript gives a value in "x ? ..." and "x || ...".
truthy(x) == x # JsNull /\ x # Str("")

\* utils.listify
listify(x) ==
  IF x = JsNull THEN Arr(<<>>)
  ELSE IF x.t # "array" THEN Arr(<<x>>)
  ELSE x

\* Scraper constructor: this.targets = targets ? utils.listify(targets) : null
Scraper(targets) == IF truthy(targets) THEN listify(targets) ELSE JsNull

\* getTargets: utils.listify(this.targets || this.constructor.targets || null)
getTargets ==
  listify(IF truthy(thisTargets) THEN thisTargets
          ELSE IF truthy(classTargets) THEN classTargets
          ELSE JsNull).items

\* urlFromTarget
urlFromTarget(x) ==
  IF x.t = "string" THEN x.v
  ELSE IF x.t = "object" THEN x.url
  ELSE "null"

\* getTargets(): the for..of loop yields the next target, or the generator
\* returns after the last one.
GetTargetsNext ==
  /\ enumerating
  /\ IF Len(enumerated) < Len(getTargets)
       THEN /\ enumerated' = Append(enumerated, getTargets[Len(enumerated) + 1])
            /\ enumerating' = TRUE
       ELSE /\ enumerated' = enumerated
            /\ enumerating' = FALSE
  /\ UNCHANGED <<cfgVars, runVars, proxyVars, sinkVars, waitVars, utilVars, given,
                 classTargets, thisTargets, urls, navVars>>

\* scrape: "const url = this.urlFromTarget(target)" for the target just yielded.
UrlFromTarget ==
  /\ Len(urls) < Len(enumerated)
  /\ urls' = Append(urls, urlFromTarget(enumerated[Len(urls) + 1]))
  /\ UNCHANGED <<cfgVars, runVars, proxyVars, sinkVars, waitVars, utilVars, given,
                 classTargets, thisTargets, enumerated, enumerating, navVars>>

NextTargets == GetTargetsNext \/ UrlFromTarget

\* ========================================================= specifications
\* The constructed Runner, before run() is called.
PipeIdle ==
  /\ hook = "raise"
  /\ hardTimeout = 0
  /\ ads = TRUE
  /\ registered = {}
  /\ nUnits = 1
  /\ nTargets = 1
  /\ pc = "run"
  /\ unit = 0
  /\ target = 0
  /\ fault = "none"
  /\ adclient = "null"
  /\ listIdx = 0
  /\ sinkState = [s \in Sinks |-> "new"]
  /\ browser = [u \in Units |-> "none"]
  /\ page = "none"
  /\ closeInvoked = FALSE
  /\ stepEnd = "none"
  /\ settled = [u \in Units |-> "no"]
  /\ yielded = 0
  /\ received = 0
  /\ record = NoRecord
  /\ timers = {}
  /\ gap = 0
  /\ fatal = 0
  /\ exitStatus = <<>>
  /\ logged = FALSE
  /\ scenario = FALSE
  /\ dispatches = 0
  /\ closes = 0

\* BrowserHandler constructor (this.__lastPageLoad = 0), no call made yet.
NavStart ==
  /\ now = Epoch
  /\ lastPageLoad = 0
  /\ npc = "idle"
  /\ op = "none"
  /\ optThrottle = 0
  /\ inner = FALSE
  /\ sleepUntil = 0
  /\ callStart = -1
  /\ prevCallStart = -1
  /\ navAt = -1
  /\ calls = 0
  /\ created = "none"
  /\ result = "none"
  /\ failed = "none"
  /\ callTimeout = Absent
  /\ steps = <<>>
  /\ usedOptions = NoOptions
  /\ closeCalls = 0
  /\ usedAfterClose = FALSE
NavIdle ==
  /\ throttleMs = 0
  /\ navigationTimeout = 0
  /\ clearCookies = FALSE
  /\ curPage = "none"
  /\ NavStart

\* The augmented session of Runner.launchBrowser, nothing called on it yet.
ProxyStart ==
  /\ held = browserProxy(RawBrowser)
  /\ ret = {}
  /\ retOp = "launchBrowser"
  /\ lastRead = NoRead
  /\ intercepting = {}
  /\ request = NoRequest
  /\ attrResult = NoAttr
ProxyIdle ==
  /\ nPages = 0
  /\ images = TRUE
  /\ sessionAdclient = "null"
  /\ ProxyStart

\* new LocalFileProcessor(path, options): this.stream = null.
SinkIdle ==
  /\ stream = "null"
  /\ sinkCalls = <<>>

\* A Scraper constructed without targets, of a class that declares none.
TargetsStart ==
  /\ thisTargets = Scraper(given)
  /\ enumerated = <<>>
  /\ enumerating = TRUE
  /\ urls = <<>>
TargetsIdle ==
  /\ given = JsNull
  /\ classTargets = JsNull
  /\ TargetsStart

\* No helper of the library called yet.
UtilStart ==
  /\ cleaned = <<>>
  /\ made = NoError
UtilIdle ==
  /\ rawText = <<>>
  /\ UtilStart

\* A page of a session without the waitTimeout option, no wait helper called.
WaitStart == waitCall = NoWait
WaitIdle ==
  /\ waitTimeout = Absent
  /\ WaitStart

\* The pipeline, over every configuration of the Runner.
Init == InitPipe /\ NavIdle /\ ProxyIdle /\ SinkIdle /\ WaitIdle /\ UtilIdle /\ TargetsIdle
Spec == Init /\ [][Next]_vars

\* The command-line script running the pipeline.
SpecCli == Init /\ [][NextCli]_vars

\* One session and its navigation-class calls, over every throttle setting.
InitNav ==
  /\ PipeIdle
  /\ ProxyIdle
  /\ SinkIdle
  /\ WaitIdle
  /\ UtilIdle
  /\ TargetsIdle
  /\ throttleMs \in 0..MaxThrottle
  /\ clearCookies \in BOOLEAN
  /\ curPage \in {"none", "open"}
  /\ navigationTimeout \in 0..MaxTimeoutOption
  /\ NavStart
SpecNav == InitNav /\ [][NextNav]_vars

\* The views a caller obtains from one augmented session.
InitProxy ==
  /\ PipeIdle
  /\ SinkIdle
  /\ WaitIdle
  /\ UtilIdle
  /\ TargetsIdle
  /\ throttleMs = 0
  /\ clearCookies \in BOOLEAN
  /\ curPage = "none"
  /\ navigationTimeout = 0
  /\ NavStart
  /\ nPages \in 0..1
  /\ images \in BOOLEAN
  /\ sessionAdclient \in {"null", "built"}
  /\ ProxyStart
SpecProxy == InitProxy /\ [][NextProxy]_vars

\* One LocalFileProcessor and every sequence of calls on it.
InitSink ==
  PipeIdle /\ NavIdle /\ ProxyIdle /\ SinkIdle /\ WaitIdle /\ UtilIdle /\ TargetsIdle
SpecSink == InitSink /\ [][NextSink]_vars

\* The wait helpers of one page, over every waitTimeout setting.
InitWait ==
  /\ PipeIdle /\ NavIdle /\ ProxyIdle /\ SinkIdle /\ UtilIdle /\ TargetsIdle
  /\ waitTimeout \in {Absent} \cup 0..MaxTimeoutOption
  /\ WaitStart
SpecWait == InitWait /\ [][NextWait]_vars

\* The library's helpers, over every input string.
InitUtil ==
  /\ PipeIdle /\ NavIdle /\ ProxyIdle /\ SinkIdle /\ WaitIdle /\ TargetsIdle
  /\ rawText \in {Null} \cup Strings
  /\ UtilStart
SpecUtil == InitUtil /\ [][NextUtil]_vars

\* One Scraper, over every targets argument and every static declaration.
InitTargets ==
  /\ PipeIdle /\ NavIdle /\ ProxyIdle /\ SinkIdle /\ WaitIdle /\ UtilIdle
  /\ given \in TargetArgs
  /\ classTargets \in TargetArgs
  /\ TargetsStart
SpecTargets == InitTargets /\ [][NextTargets]_vars

\* ================================================================ claims
\* The positions inside the record stream of one unit (getScraperItems has
\* been started and has not ended).
StreamPcs == {"getTargets", "tryOpenPage", "step", "validate", "sink", "recoverable",
              "pageClose", "scrapeThrow"}

\* C1: once runScraper has launched the browser of a unit, browser.close() has
\* been invoked by the time runScraper settles, whether it resolves or rejects.
C1_SessionTeardown ==
  \A u \in Units :
    (settled[u] # "no" /\ browser[u] # "none") => browser[u] = "closed"

\* C2: with a hard timeout H > 0, a record is never produced more than H after
\* the previous production (or the stream start) without the fatal fault
\* having been raised, and the fatal fault is raised inside a stream only
\* when the time since the last production exceeds H.
C2_Watchdog ==
  hardTimeout > 0 =>
    /\ record.status # "none" => record.gap <= hardTimeout
    /\ (fatal # 0 /\ pc \in StreamPcs) => gap > hardTimeout

C4_PageClosed ==
  (page \in {"open", "closed"}
     /\ stepEnd \in {"returned", "swallowed", "rethrown", "abandoned"}
     /\ pc # "pageClose")
    => closeInvoked

\* The sink the claim names for a record: the one registered under the name
\* of its class, otherwise the default one.
ExpectedSink(r) == IF r.name \in registered THEN r.name ELSE "default"

\* C10 as stated: every value produced is a Record when handled, validated
\* exactly once before any sink sees it, and passed to exactly one sink, the
\* expected one.
C10_Original ==
  /\ record.status # "none" => record.isRecord /\ record.validateCalls <= 1
  /\ record.sinks # <<>> => record.validateCalls = 1
  /\ record.status \in {"done", "aborted"} =>
       /\ record.validateCalls = 1
       /\ record.sinks = <<ExpectedSink(record)>>

\* C10 amended: as C10, except that a record whose validate() raised under a
\* re-raising handleError is passed to no sink.
C10_RecordDispatch ==
  /\ record.status # "none" => record.isRecord /\ record.validateCalls <= 1
  /\ record.sinks # <<>> => record.validateCalls = 1
  /\ record.status \in {"done", "aborted"} =>
       /\ record.validateCalls = 1
       /\ \/ record.sinks = <<ExpectedSink(record)>>
          \/ /\ record.status = "aborted" /\ record.validateRaised /\ hook = "raise"
             /\ record.sinks = <<>>

\* C10 witness: a record of a derived class has been validated and handed to
\* the sink registered under its class name.
C10_Witness ==
  /\ record.status = "done" /\ record.item = "Listing"
  /\ record.validateCalls = 1 /\ record.sinks = <<"Listing">>

\* C5: when the navigation inside BrowserHandler.tryOpenPage fails, or page
\* creation fails part-way through its configuration steps, tryOpenPage
\* returns null instead of raising and no page created during the call is
\* left open afterwards.
C5_TryOpen ==
  (op = "tryOpenPage" /\ npc = "idle" /\ failed \in {"navigation", "configure"})
    => (result = "null" /\ created # "open")

\* C6: with a configured minimum interval T (throttleMs) and navigation-class
\* calls issued one after another on one session, the engine navigation of
\* call i+1 never starts less than T after the start of call i.
C6_Throttle ==
  (navAt # -1 /\ prevCallStart # -1) => navAt - prevCallStart >= throttleMs

\* C6 witness: the second navigation was held back by the throttle and
\* started exactly T after the start of the call before it.
C6_Witness ==
  /\ throttleMs > 0
  /\ calls >= 2
  /\ navAt # -1
  /\ prevCallStart # -1
  /\ navAt > callStart
  /\ navAt - prevCallStart = throttleMs

\* C7: for any augmented view and any member name for which the augmentation
\* defines no operation (and no field), reading the member through the view
\* yields the underlying handle's own member.
C7_PassThrough ==
  (lastRead # NoRead /\ lastRead.key \notin Methods(lastRead.kind) \cup Fields(lastRead.kind))
    => lastRead.outcome = "target"

\* C8: every handle returned by an operation the augmentation defines on a
\* browser, page, frame or element view is an augmented view, never a raw
\* engine handle.
C8_TransitiveWrapping == \A h \in ret : h.tag = "view"

\* C9: the target of every augmented view the layer creates is a raw engine
\* handle, never another view, and the page context an element view captured
\* is a raw page or frame.
Views == {h \in ret : h.tag = "view"} \cup {held}
C9_NoRewrapping ==
  \A v \in Views :
    /\ v.target.tag = "raw"
    /\ v.kind = "element" => (v.ctx.tag = "raw" /\ v.ctx.kind \in {"page", "frame"})

\* C9 witness: an element view found inside a frame is held, and parentNode
\* on it returned a view (made from what evaluate resolved to).
C9_Witness ==
  /\ held.kind = "element"
  /\ held.ctx.kind = "frame"
  /\ retOp = "parentNode"
  /\ \E h \in ret : h.tag = "view" /\ h.kind = "element" /\ h.ctx = held.ctx

\* C11: a unit with N static targets whose pages all open and whose step
\* yields exactly one plain value per target, run with no sinks registered by
\* kind, gives exactly N calls of the default sink's process(), one per target
\* in target order, each with a validated Record, and exactly N page closes,
\* one after each target's step.
C11_EndToEnd ==
  (scenario /\ fatal = 0) =>
    /\ pc = "pageClose" => (dispatches = target /\ closes = target - 1)
    /\ pc = "getTargets" => (dispatches = target /\ closes = target)
    /\ (pc = "scrapers" /\ settled[unit] = "resolved")
         => (dispatches = nTargets /\ closes = nTargets)
    /\ record.status = "done"
         => /\ record.isRecord
            /\ record.validateCalls = 1
            /\ ~record.validateRaised
            /\ record.sinks = <<"default">>

\* C11 witness: a unit of MaxTargets targets has completed within the
\* scenario, with one dispatch and one page close per target.
C11_Witness ==
  /\ scenario
  /\ pc = "scrapers"
  /\ settled[unit] = "resolved"
  /\ nTargets = MaxTargets
  /\ dispatches = MaxTargets
  /\ closes = MaxTargets

\* C12: within one Runner.run the page of a target is closed (its close at
\* least invoked) before the unit's session is closed, the session of unit k
\* is closed before the session of unit k+1 is launched, so at most one
\* session is open at any time, and no sink is closed before every unit has
\* completed.
C12_TeardownOrder ==
  /\ (unit >= 1 /\ pc = "scrapers" /\ browser[unit] = "closed")
       => (page = "open" => closeInvoked)
  /\ \A u \in 2..nUnits : browser[u] # "none" => browser[u - 1] = "closed"
  /\ Cardinality({u \in Units : browser[u] = "open"}) <= 1
  /\ (\E s \in Sinks : sinkState[s] = "closed")
       => (unit = nUnits /\ \A u \in 1..nUnits : settled[u] = "resolved")

\* C13: Runner.run passes through its phases only in the order filter
\* building (only when ad blocking is enabled), sinks opening, then per unit
\* session launch / per-target open-extract-close / session close, then
\* sinks closing, then done; no session is launched before every sink is open
\* and the filter (if enabled) is built; no unit or target is run twice.
TargetPcs == {"getScraperItems", "getTargets", "tryOpenPage", "step", "recoverable",
              "validate", "sink", "pageClose", "scrapeThrow"}
UnitPcs == {"launchBrowser", "browserClose"} \cup TargetPcs
RunRank(p) ==
  CASE p = "run" -> 0
    [] p = "buildAdClient" -> 1
    [] p = "openProcessors" -> 2
    [] p \in UnitPcs \cup {"scrapers"} -> 3
    [] p = "closeProcessors" -> 4
    [] p = "resolved" -> 5
    [] p = "rejected" -> 6
UnitRank(p) ==
  CASE p = "launchBrowser" -> 1
    [] p \in TargetPcs -> 2
    [] p = "browserClose" -> 3
    [] OTHER -> 0
SinksReady == \A s \in {"default"} \cup registered : sinkState[s] = "open"
C13_PhaseOrder ==
  /\ []((pc \in UnitPcs \/ \E u \in Units : browser[u] = "open") =>
          (SinksReady /\ (~ads => adclient = "built")))
  /\ [](pc = "buildAdClient" => ~ads)
  /\ [][RunRank(pc') >= RunRank(pc)]_vars
  /\ [][(pc \in UnitPcs /\ pc' \in UnitPcs) => UnitRank(pc') >= UnitRank(pc)]_vars
  /\ [][(pc' = "launchBrowser" /\ pc # "launchBrowser") <=> unit' = unit + 1]_vars
  /\ [][unit' # unit + 1 => unit' = unit]_vars
  /\ [][(pc' = "tryOpenPage" /\ pc # "tryOpenPage") <=> target' = target + 1]_vars
  /\ [][target' # target + 1 => (target' = target \/ (pc = "getScraperItems" /\ target' = 0))]_vars

\* C13 witness: a run with ad blocking enabled over MaxUnits units has gone
\* through every phase and is done.
C13_Witness ==
  /\ pc = "resolved"
  /\ ~ads
  /\ adclient = "built"
  /\ nUnits = MaxUnits
  /\ unit = MaxUnits
  /\ \A s \in {"default"} \cup registered : sinkState[s] = "closed"

\* C14: a session-closed fault raised inside a unit's process step is never
\* swallowed: once recoverable has thrown it again, the unit does not go on
\* and the run fails, whatever handleError does.
C14_SessionClosedFatal ==
  stepEnd = "rethrown" =>
    /\ pc \in {"scrapeThrow", "rejected"}
    /\ pc = "rejected" => (settled[unit] = "rejected" /\ fault \in BaseErrors)

\* C15: with the default handleError, a fault raised by record.validate() or
\* by a sink's process() is wrapped into the base fault kind and raised again:
\* runScraper and run() fail with it, the record that raised on validation is
\* not dispatched, and nothing of the unit is validated or dispatched later.
C15_Aborted == hook = "raise" /\ record.status = "aborted"
C15_DefaultEscalation ==
  /\ [](C15_Aborted =>
          /\ pc = "rejected"
          /\ settled[unit] = "rejected"
          /\ fault \in BaseErrors
          /\ record.validateCalls = 1
          /\ record.validateRaised => record.sinks = <<>>
          /\ Len(record.sinks) <= 1)
  /\ []((hook = "raise" /\ record.status # "aborted")
          => (~record.validateRaised /\ (pc = "rejected" => fault # "RecordError")))
  /\ [][C15_Aborted => (pc' = pc /\ record' = record /\ received' = received
                        /\ settled' = settled /\ fault' = fault)]_vars

\* C15 witness: under the default hook a sink has raised a fault that is no
\* BaseError, and the run has failed with the wrapped fault.
C15_Witness ==
  /\ C15_Aborted
  /\ pc = "rejected"
  /\ fault = "BaseError"
  /\ Len(record.sinks) = 1

\* C16: when handleError is overridden to return, a validation fault or a
\* sink fault of a record is reported to the hook exactly once, the record
\* stream goes on (every record received later is validated once and handed
\* to its sink once), the run does not fail inside an open session, and a
\* unit that completes has its session closed.
Reported(r) == (IF r.validateRaised THEN 1 ELSE 0) + (IF r.sinkRaised THEN 1 ELSE 0)
C16_LogAndContinue ==
  hook = "continue" =>
    /\ record.status # "aborted"
    /\ record.reports = Reported(record)
    /\ (pc = "sink" /\ record.validateRaised)
         => (record.reports = 1 /\ record.validateCalls = 1 /\ record.sinks = <<>>)
    /\ (pc = "step" /\ received > 0)
         => /\ record.status = "done"
            /\ record.validateCalls = 1
            /\ record.sinks = <<getProcessorFor(record)>>
    /\ (unit >= 1 /\ pc = "rejected") => browser[unit] # "open"
    /\ \A u \in 1..nUnits : settled[u] = "resolved" => browser[u] = "closed"

\* C16 witness: under the overridden hook a record was reported, a later
\* record of the same step went through validation and its sink without a
\* fault.
C16_Witness ==
  /\ hook = "continue"
  /\ record.after
  /\ record.status = "done"
  /\ record.reports = 0
  /\ pc = "step"

\* C17: the fault thrown by the watchdog timer's callback does not pass
\* through handleUnwrappedError / handleError and is caught by no try/catch:
\* the firing leaves the run's position, pending fault, settled units and
\* record as they are (no hook call, no rejection of run()), it takes
\* precedence over every other step once the timer has run out, and after it
\* nothing of the process runs any more, whatever handleError does.
C17_WatchdogNoOverride ==
  /\ [][fatal # 0 => UNCHANGED vars]_vars
  /\ [][(fatal = 0 /\ fatal' # 0) =>
          /\ \E t \in timers : t.left < 0 /\ t.unit = fatal' /\ timers' = timers \ {t}
          /\ UNCHANGED <<pc, fault, settled, record, browser, sinkState, hook>>]_vars
  /\ [][Overdue => fatal' # 0]_vars
  /\ [](fatal # 0 => hardTimeout > 0)

\* C17 witness: under a handleError that returns, the watchdog has fired
\* inside the stream of a unit and the process has ended there.
C17_Witness ==
  /\ hook = "continue"
  /\ fatal # 0
  /\ pc \in StreamPcs
  /\ browser[unit] = "open"

\* C18: when ad blocking is enabled and the fetch of a block list fails,
\* run() fails at once: no sink has been opened, no session launched, and no
\* client (not even one holding the lists parsed so far) is installed as
\* this._adclient; the lists are fetched one at a time, in list order, each
\* after the previous one has been parsed.
C18_Untouched ==
  /\ adclient = "null"
  /\ \A s \in Sinks : sinkState[s] = "new"
  /\ \A u \in Units : browser[u] = "none"
  /\ unit = 0
C18_FailFast ==
  /\ [](fault = "FetchError" =>
          (pc = "rejected" /\ ~ads /\ listIdx < NumBlocklists /\ C18_Untouched))
  /\ [](pc = "buildAdClient" => (~ads /\ C18_Untouched))
  /\ [](adclient = "built" <=> listIdx = NumBlocklists)
  /\ [][listIdx' # listIdx => (pc = "buildAdClient" /\ listIdx' = listIdx + 1)]_vars
  /\ [][fault = "FetchError" =>
          UNCHANGED <<pc, fault, adclient, sinkState, browser, unit, listIdx>>]_vars

\* C18 witness: the first block list was fetched and parsed, the fetch of the
\* second one failed, and run() has failed.
C18_Witness ==
  /\ fault = "FetchError"
  /\ pc = "rejected"
  /\ listIdx = NumBlocklists - 1
  /\ listIdx > 0

\* C19: on a page made by newPage of a session that blocks images or has an
\* ad matcher, every request is intercepted, and on every intercepted request
\* exactly one call is made, abort or continue; it is abort if and only if
\* image loading is disabled and the request is for an image, or an ad
\* matcher is installed and it matches the request's URL.
C19_FilterDecision ==
  /\ request.page # 0 =>
       IF request.page \in intercepting
         THEN /\ Len(request.calls) = 1
              /\ request.calls[1] \in {"abort", "continue"}
              /\ request.calls[1] = "abort" <=>
                   \/ (~images /\ request.kind = "image")
                   \/ (sessionAdclient # "null" /\ request.matches)
         ELSE request.calls = <<>>
  /\ intercepting \subseteq 1..nPages
  /\ intercepting # {} => (~images \/ sessionAdclient # "null")
  /\ (retOp \in {"newPage", "tryOpenPage"} /\ (~images \/ sessionAdclient # "null"))
       => \A v \in ret : v.target.id \in intercepting

\* C19 witness: images are loaded, an ad matcher is installed, and a request
\* for a document whose URL the matcher matches was aborted.
C19_Witness ==
  /\ images
  /\ sessionAdclient = "built"
  /\ request.page \in intercepting
  /\ request.kind = "document"
  /\ request.matches
  /\ request.calls = <<"abort">>

\* C20: goto, goBack, goForward and clickAndNavigate each do, in this order,
\* the rate-limit wait, the cookie purge when clearCookies is enabled (no
\* cookie operation when it is not), and the engine navigation, which is
\* handed the configured navigation options with the values of the call's
\* own options replacing them.
NavSteps == IF clearCookies THEN <<"throttle", "cookies", "navigate">>
                            ELSE <<"throttle", "navigate">>
ConfiguredTimeout == IF navigationTimeout # 0 THEN navigationTimeout ELSE NAVIGATION_TIMEOUT
C21_ClickFlag ==
  (op = "clickAndNavigate" /\ npc = "idle") =>
    /\ result \in {"true", "false", "throw"}
    /\ result = "true" <=> failed = "none"
    /\ result = "false" <=> failed \in {"navigation", "click"}
    /\ result = "throw" <=> failed = "cookies"

\* C21 witness: the click of a clickAndNavigate was rejected and the call
\* has returned false.
C21_Witness ==
  /\ op = "clickAndNavigate"
  /\ npc = "idle"
  /\ failed = "click"
  /\ result = "false"

\* C22: whenever a member is read through a view and the view's handler
\* object holds a field of that name (whatever the field's value), the read
\* raises the internal error.
C22_HiddenField ==
  (lastRead.kind # "none" /\ lastRead.key \in Fields(lastRead.kind))
    => lastRead.outcome = "throw"

\* C23: scrape takes the unit's targets strictly in enumeration order and one
\* at a time: when it goes on to target i+1 the page of target i is closed or
\* was never opened, the process step of target i has ended (so every record
\* of target i was handed on before), and records are only produced while
\* the current target's page is open.
C23_Between ==
  /\ page \in {"closed", "null"}
  /\ page = "closed" => (closeInvoked /\ stepEnd \in {"returned", "swallowed"})
  /\ page = "null" => stepEnd = "none"
  /\ record = NoRecord
C23_TargetsInOrder ==
  /\ []((pc = "getTargets" /\ target >= 1) => C23_Between)
  /\ [](pc \in {"step", "recoverable", "validate", "sink", "pageClose"}
          => (page = "open" /\ target \in 1..nTargets))
  /\ [][(target' # target /\ target' # 0) =>
          /\ target' = target + 1
          /\ pc = "getTargets" /\ pc' = "tryOpenPage"
          /\ target >= 1 => C23_Between]_vars
  /\ [][received' > received => (pc = "step" /\ page = "open" /\ target' = target)]_vars

\* C23 witness: the first target is finished, the page of the second target
\* is open and its step has produced a record.
C23_Witness ==
  /\ target = 2
  /\ pc = "step"
  /\ page = "open"
  /\ received = 1

\* C24: when tryOpenPage gives null for a target, the process step is not
\* run for it, no record of it is produced, page.close() is not called, no
\* fault is raised, and scrape goes on with the next target (or ends when
\* there is none).
C24_Skipped ==
  /\ stepEnd = "none"
  /\ ~closeInvoked
  /\ record = NoRecord
  /\ yielded = 0 /\ received = 0
  /\ fault = "none"
C24_FailedOpenSkips ==
  /\ []((page = "null" /\ target >= 1 /\ pc \in StreamPcs)
          => (pc = "getTargets" /\ C24_Skipped))
  /\ [][(page' = "null" /\ page # "null") =>
          /\ pc = "tryOpenPage" /\ pc' = "getTargets"
          /\ UNCHANGED <<target, unit, fault, fatal, settled>>]_vars
  /\ [][(page = "null" /\ target >= 1 /\ pc = "getTargets" /\ pc' # pc) =>
          /\ fault' = "none"
          /\ IF target < nTargets
               THEN pc' = "tryOpenPage" /\ target' = target + 1
               ELSE pc' = "browserClose" /\ target' = target]_vars

\* C24 witness: the open of a target that is not the last one gave null, and
\* scrape is back at the head of its loop with nothing done for the target.
C24_Witness ==
  /\ page = "null"
  /\ pc = "getTargets"
  /\ target >= 1
  /\ target < nTargets
  /\ C24_Skipped
  /\ fatal = 0

\* C25: on a LocalFileProcessor, open() on an open sink and process() or
\* close() on a sink that is not open fail with a ProcessorError and leave
\* the sink as it was; open() on a sink that is not open succeeds and makes
\* it open.
C25_SinkMisuse ==
  \A i \in 1..Len(sinkCalls) :
    LET c == sinkCalls[i]
        misuse == (c.call = "open") = (c.before = "open")
    IN IF misuse
         THEN c.outcome = "ProcessorError" /\ c.after = c.before
         ELSE c.call = "open" => (c.outcome = "ok" /\ c.after = "open")

\* C26: attr, called with a name or with a selector and a name, returns a
\* string in every case, and the empty string when the attribute is absent,
\* also when the selector matches no element.
C26_AttrString ==
  attrResult.outcome # "none" =>
    /\ attrResult.outcome = "return"
    /\ attrResult.value \in {"", "text"}
    /\ (attrResult.attribute = "null" \/ (attrResult.nargs = 2 /\ ~attrResult.matches))
         => attrResult.value = ""

\* C27: a wait helper calls the engine's operation with the timeout of the
\* call's options when they give one, otherwise with the waitTimeout
\* configured for the session, otherwise with WAIT_TIMEOUT; what else the
\* call's options hold is handed on as it is.
C27_WaitTimeout ==
  waitCall.op # "none" =>
    /\ DOMAIN waitCall.fullOptions = {"timeout"} \cup DOMAIN waitCall.options
    /\ \A k \in DOMAIN waitCall.options : waitCall.fullOptions[k] = waitCall.options[k]
    /\ "timeout" \notin DOMAIN waitCall.options =>
         waitCall.fullOptions.timeout =
           IF waitTimeout # Absent THEN waitTimeout ELSE WAIT_TIMEOUT

\* The positions of the non-whitespace characters of a string, in order.
C28_Pos(s) == SelectSeq([i \in 1..Len(s) |-> i], LAMBDA i : s[i] \notin WhiteSpace)

\* out is the non-whitespace runs of in, in order, joined by single spaces:
\* out holds only in's non-whitespace characters and spaces, the characters
\* in in's order, it starts and ends with one of them, and two successive
\* ones are adjacent in out when they are adjacent in in and one space apart
\* when they are not.
C28_Normalized(in, out) ==
  LET pin == C28_Pos(in)
      pout == C28_Pos(out)
  IN /\ \A i \in 1..Len(out) : out[i] \notin WhiteSpace \ {" "}
     /\ Len(pout) = Len(pin)
     /\ \A k \in 1..Len(pin) : out[pout[k]] = in[pin[k]]
     /\ IF pin = <<>> THEN out = <<>>
        ELSE pout[1] = 1 /\ pout[Len(pout)] = Len(out)
     /\ \A k \in 1..(Len(pin) - 1) :
          pout[k + 1] - pout[k] = IF pin[k + 1] - pin[k] = 1 THEN 1 ELSE 2

\* The scenario's text, "  A\tB\n  C  ", gives "A B C".
C28_Example ==
  cleanWhitespace(<<" ", " ", "A", "\t", "B", "\n", " ", " ", "C", " ", " ">>)
    = <<"A", " ", "B", " ", "C">>

\* C28: for every non-empty string, cleanWhitespace returns the string's
\* non-whitespace runs in order joined by single spaces, with no leading or
\* trailing whitespace and no tab or newline; applying it again to its
\* result changes nothing; null and the empty string are returned unchanged.
C28_Normalization ==
  /\ C28_Example
  /\ \A i \in 1..Len(cleaned) :
       LET c == cleaned[i]
       IN /\ c.arg \notin {Null, <<>>} => C28_Normalized(c.arg, c.value)
          /\ c.arg \in {Null, <<>>} => c.value = c.arg
          /\ i > 1 => (c.arg = cleaned[i - 1].value /\ c.value = c.arg)
\* Reached: a string with leading whitespace, a tab between two letters and
\* none after them has been cleaned twice.
C28_Witness ==
  /\ rawText = <<"\n", "A", "\t", "B">>
  /\ Len(cleaned) = 2
  /\ cleaned[1].arg = rawText
  /\ cleaned[1].value = <<"A", " ", "B">>
  /\ cleaned[2].value = <<"A", " ", "B">>

\* C29: an instance of BaseError, RecordError or ProcessorError, constructed
\* with or without a message, has the name of its concrete class as its name.
C29_ErrorName == made.class # "none" => made.name = made.class
\* Reached: a RecordError constructed without a message, named RecordError.
C29_Witness ==
  /\ made.class = "RecordError"
  /\ made.message = "undefined"
  /\ made.name = "RecordError"

\* C30: every fault that Scraper.recoverable swallows has been passed to the
\* diagnostic log, with the page address when it could be determined and
\* without it when it could not; no fault is swallowed silently.
C30_SwallowedLogged == stepEnd = "swallowed" => logged

\* C31: the command-line process ends with status 0 exactly when
\* runner.run has resolved; it ends with a non-zero status when runner.run
\* has rejected, when a promise rejection was left unhandled, and when the
\* watchdog has fired; and it ends in each of these cases.
C31_CompletionSignal ==
  /\ [](exitStatus # <<>> =>
          /\ Len(exitStatus) = 1
          /\ (exitStatus[1] = 0 <=> (pc = "resolved" /\ fatal = 0))
          /\ (pc = "rejected" \/ fatal # 0) => exitStatus[1] # 0)
  /\ [][(exitStatus = <<>> /\ exitStatus' # <<>>) =>
          /\ (pc = "resolved" /\ fatal' = 0) => exitStatus' = <<0>>
          /\ (pc # "resolved" \/ fatal' # 0) => exitStatus'[1] # 0
          /\ pc' = pc]_vars
  /\ [](fatal # 0 => exitStatus # <<>>)
  /\ [][exitStatus # <<>> => UNCHANGED vars]_vars
  /\ []((pc \in {"resolved", "rejected"} /\ exitStatus = <<>>) => ENABLED (RunThen \/ RunCatch))
\* Reached: a promise rejection was left unhandled during a step and the
\* process has ended with status 1 while run() was still pending.
C31_Witness ==
  /\ exitStatus = <<1>>
  /\ pc = "step"
  /\ fatal = 0

\* The targets a value stands for: none for null and for the empty string,
\* the elements of a list, the value itself otherwise.
C32_List(x) ==
  IF x = JsNull \/ x = Str("") THEN <<>>
  ELSE IF x.t = "array" THEN x.items
  ELSE <<x>>
C32_Expected ==
  IF C32_List(given) # <<>> THEN C32_List(given) ELSE C32_List(classTargets)

\* C32: getTargets yields, in order, the targets given to the constructor
\* when any were given, otherwise the class's statically declared targets,
\* otherwise nothing; a single non-list target is yielded as a one-element
\* sequence; urlFromTarget returns a string target itself and the url field
\* of a structured target.
C32_TargetEnumeration ==
  /\ Len(enumerated) <= Len(C32_Expected)
  /\ enumerated = SubSeq(C32_Expected, 1, Len(enumerated))
  /\ ~enumerating => enumerated = C32_Expected
  /\ \A i \in 1..Len(urls) :
       urls[i] = IF enumerated[i].t = "string" THEN enumerated[i].v
                 ELSE enumerated[i].url

\* C33: at every moment at most one watchdog timer is armed, and once the
\* record stream of a unit has ended (exhausted, ended by a fault the hook
\* swallowed or re-raised, or abandoned by the consumer) no timer armed for
\* that unit is pending.
C33_NoStrayTimer ==
  /\ Cardinality(timers) <= 1
  /\ \A t \in timers : t.unit = unit /\ pc \in StreamPcs

\* C34: under any error-handling hook, a record whose validate() raised is
\* never passed to the process() of a sink.
C34_InvalidNeverDispatched == record.validateRaised => record.sinks = <<>>

\* C35: across all interleavings of the crash handler that newPage installs
\* on a page with tryOpenPage and the scrape loop, the raw close() of one
\* page is invoked at most once, and no operation is issued on a page after
\* its close() has been invoked.
C35_ClosedOnce == closeCalls <= 1 /\ ~usedAfterClose

\* C36: the throttle does not over-delay a tryOpenPage: the first
\* navigation of a session is not delayed at all (the throttle never sleeps
\* during the session's first call), and each tryOpenPage advances the
\* throttle clock once (after the throttle at its head has advanced it, the
\* rest of the call leaves it alone), so that back-to-back calls navigate one
\* interval apart.
C36_NoOverDelay ==
  /\ []((calls = 1 /\ op = "tryOpenPage") => npc # "sleep")
  /\ [][(op = "tryOpenPage" /\ inner) => lastPageLoad' = lastPageLoad]_vars

\* C37: every sink that run() opened has been closed by the time run()
\* settles, whether it resolves or rejects; the default sink is opened first
\* and closed last (a registered sink is open only while the default sink is).
C37_SinksBalanced ==
  /\ pc \in {"resolved", "rejected"} => \A s \in Sinks : sinkState[s] # "open"
  /\ \A s \in registered : sinkState[s] = "open" => sinkState["default"] = "open"

====
